---- MODULE Spec2Model ----
(***************************************************************************)
(* A model of the LiteZ core (src/litez1.js): the expression evaluator,    *)
(* the reactive state container, the template compiler with its VNode      *)
(* builder, and the renderer / reconciler.                                 *)
(*                                                                         *)
(* Each part has its own specification over the shared variables:          *)
(*   SpecEval   evaluate(expression, state)                                *)
(*   SpecState  state(initial): get / set / onChange / watch               *)
(*   SpecTpl    compileTemplate(text, context) and the render() it returns *)
(*   SpecDom    render(node, container) and update(parent, new, old, i)    *)
(***************************************************************************)
EXTENDS Integers, Sequences, FiniteSets, TLC

VARIABLES
    ev,     \* one call of evaluate: its arguments and its result
    rs,     \* one state(initial) container: heap, proxies, listeners, watchers
    tpl,    \* one compileTemplate result: intermediate tree, caches, state
    dom,    \* one container element and the VNode trees rendered into it
    lz      \* the LiteZ object: update queue, scheduled flag, frame callbacks

vars == <<ev, rs, tpl, dom, lz>>

(***************************************************************************)
(* JavaScript values.  Every value is a record with the same fields, so    *)
(* that any two values can be compared: t is the typeof-like tag, v the    *)
(* payload of a string, f the properties of an object (key -> value).      *)
(* A property key is a sequence of tokens; a token stands for a run of     *)
(* characters holding neither a dot nor white space, " " for white space   *)
(* and "." for the dot.                                                    *)
(***************************************************************************)
NoProps == [k \in {} |-> 0]

Undef == [t |-> "undefined", v |-> "", f |-> NoProps]

Null == [t |-> "null", v |-> "", f |-> NoProps]

Str(s) == [t |-> "string", v |-> s, f |-> NoProps]

Fn(name) == [t |-> "function", v |-> name, f |-> NoProps]

Obj(props) == [t |-> "object", v |-> "", f |-> props]

KeyA == <<"a">>

KeyValue == <<"value">>

KeyWatch == <<"watch">>

KeyOnChange == <<"onChange">>

\* value[key] on a plain object: an absent property reads as undefined.
GetProp(value, key) == IF key \in DOMAIN value.f THEN value.f[key] ELSE Undef

(***************************************************************************)
(* evaluate(expression, state), isRef, unref                               *)
(***************************************************************************)
ExprAlphabet == {"a", "value", " ", "."}

MaxExprLen == 4

\* expression.split("."): the parts between the dots, empty parts kept.
RECURSIVE SplitFrom(_, _, _)
SplitFrom(expression, i, part) ==
    IF i > Len(expression) THEN <<part>>
    ELSE IF expression[i] = "."
         THEN <<part>> \o SplitFrom(expression, i + 1, <<>>)
         ELSE SplitFrom(expression, i + 1, Append(part, expression[i]))

Split(expression) == SplitFrom(expression, 1, <<>>)

\* part.trim(): white space removed at both ends, kept inside.
RECURSIVE TrimStart(_)
TrimStart(part) ==
    IF part # <<>> /\ Head(part) = " " THEN TrimStart(Tail(part)) ELSE part

RECURSIVE TrimEnd(_)
TrimEnd(part) ==
    IF part # <<>> /\ part[Len(part)] = " "
    THEN TrimEnd(SubSeq(part, 1, Len(part) - 1))
    ELSE part

Trim(part) == TrimEnd(TrimStart(part))

\* value && typeof value === "object" && "value" in value &&
\* (value.watch !== undefined || value.onChange !== undefined)
IsRef(value) ==
    /\ value.t = "object"
    /\ KeyValue \in DOMAIN value.f
    /\ \/ GetProp(value, KeyWatch) # Undef
       \/ GetProp(value, KeyOnChange) # Undef

Unref(value) == IF IsRef(value) THEN value.f[KeyValue] ELSE value

\* The for loop of evaluate over the parts, from part i on, with its two
\* early returns, and the unref of the value the loop ends with.
RECURSIVE EvaluateLoopNoTrim(_, _, _)
EvaluateLoopNoTrim(parts, i, value) ==
    IF i > Len(parts) THEN Unref(value)
    ELSE IF value.t # "object" THEN Undef
    ELSE LET next == GetProp(value, parts[i])
         IN  IF next = Undef THEN Undef
             ELSE EvaluateLoopNoTrim(parts, i + 1, next)

RECURSIVE EvaluateLoop(_, _, _)
EvaluateLoop(parts, i, value) ==
    IF i > Len(parts) THEN Unref(value)
    ELSE IF value.t # "object" THEN Undef
    ELSE LET next == GetProp(value, Trim(parts[i]))
         IN  IF next = Undef THEN Undef
             ELSE EvaluateLoop(parts, i + 1, next)

Evaluate(expression, state) == EvaluateLoop(Split(expression), 1, state)

\* The expressions and the snapshots evaluate is called with.
Exprs == UNION {[1..n -> ExprAlphabet] : n \in 0..MaxExprLen}

Leaves == {Undef, Null, Str("x")}

WatchParts == {NoProps, KeyWatch :> Fn("watch"), KeyWatch :> Undef}

Objs1 ==
    {Obj(g @@ w) : g \in UNION {[D -> Leaves] : D \in SUBSET {KeyA, KeyValue}},
                   w \in WatchParts}

Snapshots ==
    Leaves \cup Objs1
    \cup {Obj(KeyA :> o) : o \in Objs1}
    \cup {Obj(KeyValue :> o @@ KeyWatch :> Fn("watch")) : o \in Objs1}
    \cup {Obj(KeyA :> Obj(KeyA :> o)) : o \in Objs1}

EvIdle == [phase |-> "idle", expr |-> <<>>, snap |-> Undef, out |-> Undef]

EvalCall ==
    /\ ev.phase = "idle"
    /\ \E expression \in Exprs, state \in Snapshots :
         ev' = [phase |-> "done", expr |-> expression, snap |-> state,
                out |-> Evaluate(expression, state)]
    /\ UNCHANGED <<rs, tpl, dom, lz>>

EvalReturn ==
    /\ ev.phase = "done"
    /\ ev' = EvIdle
    /\ UNCHANGED <<rs, tpl, dom, lz>>

(***************************************************************************)
(* The path walk evaluate is specified by, over the parts still to go.     *)
(***************************************************************************)
RECURSIVE PathWalk(_, _)
PathWalk(parts, value) ==
    IF parts = <<>> THEN (IF IsRef(value) THEN GetProp(value, KeyValue) ELSE value)
    ELSE IF value.t \in {"null", "undefined", "string", "function"} THEN Undef
    ELSE IF GetProp(value, Head(parts)) = Undef THEN Undef
    ELSE PathWalk(Tail(parts), GetProp(value, Head(parts)))

TrimAll(parts) == [i \in 1..Len(parts) |-> Trim(parts[i])]

\* C8 as stated: evaluate(expr, snapshot) is the path walk over the parts of
\* expr as split on ".", each part used as the property name as it stands.
C8_EvaluateIsPathWalk ==
    ev.phase = "done" => ev.out = PathWalk(Split(ev.expr), ev.snap)

\* C8 amended: evaluate(expr, snapshot) is the path walk over the parts of
\* expr as split on ".", each part trimmed of the white space around it.
C8_EvaluateIsTrimmedPathWalk ==
    ev.phase = "done" => ev.out = PathWalk(TrimAll(Split(ev.expr)), ev.snap)

\* A call that walked two parts, one of them written with white space, down
\* to a ref-like object and returned the string its value holds.
C8_Witness ==
    /\ ev.phase = "done"
    /\ Len(Split(ev.expr)) = 2
    /\ \E i \in 1..2 : Trim(Split(ev.expr)[i]) # Split(ev.expr)[i]
    /\ \A i \in 1..2 : Trim(Split(ev.expr)[i]) = KeyA
    /\ IsRef(GetProp(GetProp(ev.snap, KeyA), KeyA))
    /\ ev.out = Str("x")

(***************************************************************************)
(* state(initial): the reactive state container.                           *)
(*                                                                         *)
(* The heap rs.ents holds the objects the container can reach, by          *)
(* identity: a raw object with its properties, or a Proxy with its target  *)
(* (a raw object or another Proxy).  rs.seen is the WeakMap seen: the      *)
(* wrapper recorded for an entity, 0 for none.  A slot of a property holds *)
(* a primitive or a reference to an entity.                                *)
(***************************************************************************)
Prim(s) == [t |-> "prim", v |-> s, id |-> 0]

Undefined == [t |-> "undefined", v |-> "", id |-> 0]

NullRef == [t |-> "null", v |-> "", id |-> 0]

Ref(n) == [t |-> "ref", v |-> "", id |-> n]

RawEnt(props, extensible, marked) ==
    [kind |-> "raw", target |-> 0, props |-> props,
     ext |-> extensible, raw |-> marked]

ProxyEnt(target) ==
    [kind |-> "proxy", target |-> target, props |-> NoProps,
     ext |-> TRUE, raw |-> FALSE]

\* The raw object a chain of proxies ends in.
RECURSIVE Ultimate(_, _)
Ultimate(s, n) ==
    IF s.ents[n].kind = "raw" THEN n ELSE Ultimate(s, s.ents[n].target)

\* The source a slot stands for: the raw object behind a wrapper.
Source(s, val) == IF val.t = "ref" THEN Ref(Ultimate(s, val.id)) ELSE val

\* An event of the notification log of the operation in progress.
Event(e, c, who, key, nv, ov) ==
    [e |-> e, c |-> c, who |-> who, key |-> key, nv |-> nv, ov |-> ov]

Logged(s, event) == [s EXCEPT !.log = Append(@, event)]

\* deepProxy(obj): lines 236-262.  obj.__litez_raw__ and Object.isExtensible
\* read through a chain of proxies down to the raw object.
DeepProxy(s, val) ==
    IF val.t # "ref" THEN [s |-> s, val |-> val]
    ELSE LET u == Ultimate(s, val.id)
         IN  IF s.ents[u].raw \/ ~s.ents[u].ext THEN [s |-> s, val |-> val]
             ELSE IF s.seen[val.id] # 0
                  THEN [s |-> s, val |-> Ref(s.seen[val.id])]
                  ELSE LET p == Len(s.ents) + 1
                           seen == [i \in 1..p |->
                                      IF i = val.id THEN p
                                      ELSE IF i = p THEN 0 ELSE s.seen[i]]
                       IN  [s |-> [s EXCEPT
                                     !.ents = Append(s.ents, ProxyEnt(val.id)),
                                     !.seen = seen],
                            val |-> Ref(p)]

\* entity[key]: a plain read of a raw object, the get trap of a proxy
\* (deepProxy(target[key])).
RECURSIVE GetE(_, _, _)
GetE(s, n, key) ==
    IF s.ents[n].kind = "raw"
    THEN [s |-> s,
          val |-> IF key \in DOMAIN s.ents[n].props
                  THEN s.ents[n].props[key] ELSE Undefined]
    ELSE LET inner == GetE(s, s.ents[n].target, key)
         IN  DeepProxy(inner.s, inner.val)

\* The keys a watcher can be registered under, and the callbacks.
WatchKeys == {"a", "*"}

Callbacks == {"f", "g"}

\* The onChange listeners: L1 only observes; LW writes w = "1" to the
\* state it listens to unless w is "1" already.
Listeners == {"L1", "LW"}

\* watchers.forEach((cb, watchedKey) => { if (watchedKey === key ||
\* watchedKey === "*") cb(value, oldValue) }), from entry i on.
RECURSIVE NotifyWatchersIfChanged(_, _, _, _, _)
NotifyWatchersIfChanged(s, key, value, oldValue, i) ==
    IF i > Len(s.watchers) THEN s
    ELSE LET w == s.watchers[i]
             hit == (w.key = key \/ w.key = "*") /\ value # oldValue
         IN  NotifyWatchersIfChanged(
                 IF hit THEN Logged(s, Event("watcher", s.cur, w.cb, w.key, value, oldValue))
                 ELSE s,
                 key, value, oldValue, i + 1)

RECURSIVE NotifyWatchers(_, _, _, _, _)
NotifyWatchers(s, key, value, oldValue, i) ==
    IF i > Len(s.watchers) THEN s
    ELSE LET w == s.watchers[i]
             hit == w.key = key \/ w.key = "*"
         IN  NotifyWatchers(
                 IF hit THEN Logged(s, Event("watcher", s.cur, w.cb, w.key, value, oldValue))
                 ELSE s,
                 key, value, oldValue, i + 1)

RECURSIVE SetE(_, _, _, _)
RECURSIVE NotifyListeners(_, _, _)
RECURSIVE StateSetKey(_, _, _)
RECURSIVE StateSetKeyReturnsFirst(_, _, _)

\* entity[key] = value: a plain write of a raw object, the set trap of a
\* proxy (lines 242-250).
SetE(s, n, key, value) ==
    IF s.ents[n].kind = "raw"
    THEN [s EXCEPT !.ents[n].props = (key :> value) @@ @]
    ELSE LET old == GetE(s, s.ents[n].target, key)
             dp == DeepProxy(old.s, value)
             written == SetE(dp.s, s.ents[n].target, key, dp.val)
             told == NotifyListeners(written, n, 1)
         IN  NotifyWatchers(told, key, value, old.val, 1)

\* listeners.forEach((cb) => cb(proxy)), from listener i on.  A listener that
\* writes calls state.set before it returns.
NotifyListeners(s, proxy, i) ==
    IF i > Len(s.listeners) THEN s
    ELSE LET l == s.listeners[i]
             called == Logged(s, Event("listener", s.cur, l, "", Ref(proxy), Undefined))
             w == GetE(called, called.proxy, "w")
             after == IF l = "LW" /\ w.val # Prim("1")
                      THEN StateSetKey(w.s, "w", Prim("1"))
                      ELSE called
         IN  NotifyListeners(after, proxy, i + 1)

\* state.set(key, value) with a key that is no object (line 270).  The
\* "call" and "return" events bracket the call; the call records the value
\* the root held under the key when the call began.
StateSetKeyReturnsFirst(s, key, value) ==
    LET c == s.ncalls + 1
        before == GetE(s, Ultimate(s, s.proxy), key).val
        entered == Logged([s EXCEPT !.ncalls = c, !.cur = c],
                          Event("call", c, "set", key, value, before))
        left == Logged(entered, Event("return", c, "set", key, value, before))
        dp == DeepProxy(left, value)
        done == SetE(dp.s, s.proxy, key, dp.val)
    IN  [done EXCEPT !.cur = s.cur]

StateSetKey(s, key, value) ==
    LET c == s.ncalls + 1
        before == GetE(s, Ultimate(s, s.proxy), key).val
        entered == Logged([s EXCEPT !.ncalls = c, !.cur = c],
                          Event("call", c, "set", key, value, before))
        dp == DeepProxy(entered, value)
        done == SetE(dp.s, s.proxy, key, dp.val)
    IN  [Logged(done, Event("return", c, "set", key, value, before))
            EXCEPT !.cur = s.cur]

\* The order Object.assign meets the own keys of a source in.
KeyOrder == <<"a", "b", "o", "w", "x">>

OwnKeys(s, n) ==
    SelectSeq(KeyOrder, LAMBDA k : k \in DOMAIN s.ents[Ultimate(s, n)].props)

\* Object.assign(proxy, source): each own key of the source is read from the
\* source and written to the root wrapper, from key i on.
RECURSIVE AssignFrom(_, _, _, _)
AssignFrom(s, source, keys, i) ==
    IF i > Len(keys) THEN s
    ELSE LET read == GetE(s, source, keys[i])
         IN  AssignFrom(SetE(read.s, read.s.proxy, keys[i], read.val),
                        source, keys, i + 1)

\* state.set(object): typeof key === "object" (line 269), null included.
StateSetObject(s, key) ==
    LET c == s.ncalls + 1
        entered == Logged([s EXCEPT !.ncalls = c, !.cur = c],
                          Event("call", c, "merge", "", key, Undefined))
        dp == DeepProxy(entered, key)
        done == IF dp.val.t = "ref"
                THEN AssignFrom(dp.s, dp.val.id, OwnKeys(dp.s, dp.val.id), 1)
                ELSE dp.s
    IN  [Logged(done, Event("return", c, "merge", "", key, Undefined))
            EXCEPT !.cur = s.cur]

\* watch(key, callback): watchers.set(key, callback).  A Map keeps the place
\* of a key it already holds.
WatchAdds(watchers, key, cb) == Append(watchers, [key |-> key, cb |-> cb])

WatchSet(watchers, key, cb) ==
    IF \E i \in 1..Len(watchers) : watchers[i].key = key
    THEN [i \in 1..Len(watchers) |->
            IF watchers[i].key = key THEN [key |-> key, cb |-> cb] ELSE watchers[i]]
    ELSE Append(watchers, [key |-> key, cb |-> cb])

\* state.get() followed by the property reads of a path.
RECURSIVE ReadPath(_, _, _)
ReadPath(s, val, path) ==
    IF path = <<>> THEN [s |-> s, val |-> val]
    ELSE IF val.t # "ref" THEN [s |-> s, val |-> Undefined]
    ELSE LET r == GetE(s, val.id, Head(path))
         IN  ReadPath(r.s, r.val, Tail(path))

StateGetPath(s, path) == ReadPath(s, Ref(s.proxy), path)

(***************************************************************************)
(* The container under test: state(initial) over a graph with a cycle      *)
(* (O and P hold each other), a frozen object and an object marked raw.    *)
(***************************************************************************)
\* The objects of the initial graph, by their place in the heap.
HeapNames == <<"root", "O", "P", "frozen", "marked", "srcTwo">>

HeapId(name) == CHOOSE i \in DOMAIN HeapNames : HeapNames[i] = name

RootId == HeapId("root")

ObjO == HeapId("O")

ObjP == HeapId("P")

ObjFrozen == HeapId("frozen")

ObjMarked == HeapId("marked")

SrcTwo == HeapId("srcTwo")

InitialHeap ==
    << RawEnt("a" :> Prim("0") @@ "o" :> Ref(ObjO) @@ "x" :> Ref(ObjFrozen),
              TRUE, FALSE),
       RawEnt("x" :> Prim("0") @@ "o" :> Ref(ObjP), TRUE, FALSE),
       RawEnt("o" :> Ref(ObjO) @@ "x" :> Ref(ObjMarked), TRUE, FALSE),
       RawEnt("x" :> Prim("0"), FALSE, FALSE),
       RawEnt("x" :> Prim("0"), TRUE, TRUE),
       RawEnt("a" :> Prim("1") @@ "b" :> Ref(ObjO), TRUE, FALSE) >>

MaxEnts == 11

SetKeys == {"a", "b"}

SetValues == {Prim("0"), Prim("1"), Ref(ObjO)}

MergeSources == {Ref(SrcTwo), NullRef}

ReadPaths ==
    {<<"a">>, <<"b">>, <<"x">>, <<"o">>, <<"o", "o">>, <<"o", "o", "o">>,
     <<"o", "o", "x">>}

NoCallback == "none"

\* const proxy = deepProxy(initial), no listener, no watcher.
RsNew ==
    LET made == DeepProxy([ents |-> InitialHeap,
                           seen |-> [i \in 1..Len(InitialHeap) |-> 0]],
                          Ref(RootId))
    IN  [ents |-> made.s.ents, seen |-> made.s.seen, proxy |-> made.val.id,
         listeners |-> <<>>, watchers |-> <<>>,
         log |-> <<>>, ncalls |-> 0, cur |-> 0,
         op |-> "new", lastWatch |-> [k \in WatchKeys |-> NoCallback],
         replaced |-> {}, held |-> 0, unsub |-> [key |-> "", cb |-> NoCallback]]

\* The log of an operation starts empty.
Fresh(s, op) == [s EXCEPT !.log = <<>>, !.ncalls = 0, !.cur = 0, !.op = op]

Fits(s) == Len(s.ents) <= MaxEnts

RsSet ==
    /\ \E key \in SetKeys, value \in SetValues :
         LET s == StateSetKey(Fresh(rs, "set"), key, value)
         IN  Fits(s) /\ rs' = s
    /\ UNCHANGED <<ev, tpl, dom, lz>>

\* state.set(key, state.get()[from]): a value read from the state is
\* written back to it.
RsSetBack ==
    /\ \E key \in SetKeys, from \in {"o", "b"} :
         LET r == StateGetPath(Fresh(rs, "setback"), <<from>>)
             s == StateSetKey(r.s, key, r.val)
         IN  r.val.t = "ref" /\ Fits(s) /\ rs' = s
    /\ UNCHANGED <<ev, tpl, dom, lz>>

RsSetObject ==
    /\ \E key \in MergeSources :
         LET s == StateSetObject(Fresh(rs, "merge"), key)
         IN  Fits(s) /\ rs' = s
    /\ UNCHANGED <<ev, tpl, dom, lz>>

RsOnChange ==
    /\ \E l \in Listeners :
         /\ \A i \in 1..Len(rs.listeners) : rs.listeners[i] # l
         /\ rs' = [Fresh(rs, "onChange") EXCEPT !.listeners = Append(@, l)]
    /\ UNCHANGED <<ev, tpl, dom, lz>>

RsWatch ==
    /\ \E key \in WatchKeys, cb \in Callbacks :
         rs' = [Fresh(rs, "watch") EXCEPT
                  !.watchers = WatchSet(@, key, cb),
                  !.replaced = IF rs.lastWatch[key] \in {NoCallback, cb}
                               THEN @ \ {<<key, cb>>}
                               ELSE (@ \ {<<key, cb>>}) \cup {<<key, rs.lastWatch[key]>>},
                  !.lastWatch[key] = cb]
    /\ UNCHANGED <<ev, tpl, dom, lz>>

\* A read of the state along a path; the caller keeps the first wrapper it
\* is given for the object O.
RsRead ==
    /\ \E path \in ReadPaths :
         LET r == StateGetPath(Fresh(rs, "read"), path)
         IN  /\ Fits(r.s)
             /\ rs' = [r.s EXCEPT !.held =
                         IF @ = 0 /\ r.val.t = "ref" /\ Ultimate(r.s, r.val.id) = ObjO
                         THEN r.val.id ELSE @]
    /\ UNCHANGED <<ev, tpl, dom, lz>>

(***************************************************************************)
(* Claims about the notifications of a write (C2, C4, C5, C6) and about    *)
(* the wrappers (C7).                                                      *)
(***************************************************************************)
\* The places of the log: of the call event and the return event of a call,
\* and of the notifications made for it.
CallIds == {rs.log[i].c : i \in {j \in DOMAIN rs.log : rs.log[j].e = "call"}}

CallAt(c) == CHOOSE i \in DOMAIN rs.log : rs.log[i].e = "call" /\ rs.log[i].c = c

Returned(c) == \E i \in DOMAIN rs.log : rs.log[i].e = "return" /\ rs.log[i].c = c

ReturnAt(c) == CHOOSE i \in DOMAIN rs.log : rs.log[i].e = "return" /\ rs.log[i].c = c

ListenerCalls(c, l) ==
    {i \in DOMAIN rs.log :
        rs.log[i].e = "listener" /\ rs.log[i].c = c /\ rs.log[i].who = l}

WatcherCalls(c, key, cb) ==
    {i \in DOMAIN rs.log :
        /\ rs.log[i].e = "watcher" /\ rs.log[i].c = c
        /\ rs.log[i].key = key /\ rs.log[i].who = cb}

Registered == {rs.listeners[i] : i \in DOMAIN rs.listeners}

Within(i, c) == Returned(c) /\ CallAt(c) < i /\ i < ReturnAt(c)

\* C2 as stated: every call of set, with a key or with an object of any number
\* of keys, invokes each registered onChange listener exactly once, before
\* the call returns.
C2_EachListenerOncePerSet ==
    \A c \in CallIds : \A l \in Registered :
        /\ Cardinality(ListenerCalls(c, l)) = 1
        /\ \A i \in ListenerCalls(c, l) : Within(i, c)

\* C4: every set(key, value) invokes the watcher under key and the watcher
\* under "*" once each, before it returns, with the value written and the
\* value held before, also when the two are equal; no other watcher runs.
C4_WatchersOncePerKeyedSet ==
    \A c \in CallIds :
        rs.log[CallAt(c)].who = "set" =>
            \A w \in WatchKeys : \A cb \in Callbacks :
                LET call == rs.log[CallAt(c)]
                    due == /\ w \in {call.key, "*"}
                           /\ \E i \in DOMAIN rs.watchers :
                                rs.watchers[i] = [key |-> w, cb |-> cb]
                IN  /\ Cardinality(WatcherCalls(c, w, cb)) = (IF due THEN 1 ELSE 0)
                    /\ \A i \in WatcherCalls(c, w, cb) :
                         /\ Within(i, c)
                         /\ Source(rs, rs.log[i].nv) = Source(rs, call.nv)
                         /\ rs.log[i].ov = call.ov

\* A write of the value the key already holds, with a watcher under the key
\* and another under "*": both were invoked.
C4_Witness ==
    \E c \in CallIds :
        LET call == rs.log[CallAt(c)]
        IN  /\ call.who = "set" /\ call.key = "a" /\ call.nv = call.ov
            /\ \E f \in Callbacks, g \in Callbacks :
                 /\ WatcherCalls(c, "a", f) # {}
                 /\ WatcherCalls(c, "*", g) # {}

\* C5: a watched key holds one callback: a write invokes, for a watched key,
\* the callback registered last under it and none it replaced.
C5_LastWatcherOnly ==
    \A i \in DOMAIN rs.log :
        rs.log[i].e = "watcher" =>
            /\ rs.log[i].who = rs.lastWatch[rs.log[i].key]
            /\ <<rs.log[i].key, rs.log[i].who>> \notin rs.replaced

\* watch("a", f) then watch("a", g), then a write to a that invoked g.
C5_Witness ==
    /\ <<"a", "f">> \in rs.replaced
    /\ rs.lastWatch["a"] = "g"
    /\ \E c \in CallIds :
         /\ rs.log[CallAt(c)].key = "a"
         /\ WatcherCalls(c, "a", "g") # {}
         /\ WatcherCalls(c, "a", "f") = {}

\* A call of set made while another call of set is notifying.
Nested(inner, outer) ==
    /\ inner # outer
    /\ CallAt(outer) < CallAt(inner)
    /\ ~Returned(outer) \/ CallAt(inner) < ReturnAt(outer)

\* C6: the notifications of a write made by a listener all happen before
\* that write returns, the write returns before the outer write notifies
\* anyone else, and the outer write returns last.
C6_NestedWriteCompletesFirst ==
    \A outer \in CallIds : \A inner \in CallIds :
        Nested(inner, outer) =>
            /\ Returned(inner) /\ Returned(outer)
            /\ ReturnAt(inner) < ReturnAt(outer)
            /\ \A l \in Registered : ListenerCalls(inner, l) # {}
            /\ \A i \in DOMAIN rs.log :
                 /\ rs.log[i].c = inner => CallAt(inner) <= i /\ i <= ReturnAt(inner)
                 /\ rs.log[i].c = outer => ~Within(i, inner)

\* The listener LW wrote during a write to a; the listener L1 and a watcher
\* of the outer write ran after the nested write had returned.
C6_Witness ==
    \E outer \in CallIds : \E inner \in CallIds :
        /\ Nested(inner, outer)
        /\ \E i \in ListenerCalls(outer, "L1") : i > ReturnAt(inner)
        /\ \E i \in DOMAIN rs.log :
             /\ rs.log[i].e = "watcher" /\ rs.log[i].c = outer
             /\ i > ReturnAt(inner)
        /\ \E i \in DOMAIN rs.log : rs.log[i].e = "watcher" /\ rs.log[i].c = inner

\* C7 as stated: two reads that reach the same source object, by any two
\* paths, before or after a set, return the same wrapper.
C7_OneWrapperPerSource ==
    \A p \in ReadPaths :
        LET first == StateGetPath(rs, p)
        IN  first.val.t = "ref" =>
              /\ \A q \in ReadPaths :
                   LET second == StateGetPath(first.s, q)
                   IN  (/\ second.val.t = "ref"
                        /\ Source(second.s, second.val) = Source(second.s, first.val))
                       => second.val = first.val
              /\ (rs.held # 0 /\ Source(first.s, first.val) = Ref(ObjO))
                 => first.val = Ref(rs.held)

(***************************************************************************)
(* compileTemplate(templateString, context).                               *)
(*                                                                         *)
(* The DOMParser is the browser's: the model starts from the first child   *)
(* of the parsed <template>, a text node [type |-> "#text"] or an element  *)
(* [type |-> "#element"], or NoChild for an empty template.  A text is a   *)
(* sequence of tokens: a word, " " for white space, a "{{...}}" token or a *)
(* "$name" token.  A string a build yields is a sequence of tokens too.    *)
(***************************************************************************)
NoChild == [type |-> "none"]

TextNode(text) == [type |-> "#text", text |-> text]

Attr(name, value) == [name |-> name, value |-> value]

ElementNode(tag, attrs, childNodes) ==
    [type |-> "#element", tag |-> tag, attrs |-> attrs, childNodes |-> childNodes]

\* The values a build puts in a tree.
NullNode == [type |-> "null"]

UndefinedNode == [type |-> "undefined"]

StringNode(tokens) == [type |-> "string", value |-> tokens]

\* A value of the state as a child or as the result of a render.
AsNode(value) ==
    IF value.t = "string" THEN StringNode(<<value.v>>)
    ELSE IF value.t = "number" THEN [type |-> "number", value |-> <<value.v>>]
    ELSE IF value.t = "null" THEN NullNode
    ELSE UndefinedNode

\* The values of the state the directives read: true and false, and an
\* array, an object with its items under "0", "1", ... and its length.
Bool(b) == [t |-> "boolean", v |-> IF b THEN "true" ELSE "false", f |-> NoProps]

Digits == <<"0", "1", "2", "3">>

Num(n) == [t |-> "number", v |-> Digits[n + 1], f |-> NoProps]

Arr(items) ==
    [t |-> "object", v |-> "array",
     f |-> [k \in {<<Digits[i]>> : i \in DOMAIN items} \cup {<<"length">>} |->
              IF k = <<"length">> THEN Num(Len(items))
              ELSE items[CHOOSE i \in DOMAIN items : k = <<Digits[i]>>]]]

\* What JavaScript takes for true among the values of the state.
Truthy(value) ==
    \/ value.t \in {"object", "function"}
    \/ value.t = "string" /\ value.v # ""
    \/ value.t = "boolean" /\ value.v = "true"
    \/ value.t = "number" /\ value.v # "0"

\* PATCH_FLAGS: a flags word is the set of the bits set in it.
FlagTEXT == "TEXT"

FlagCLASS == "CLASS"

FlagPROPS == "PROPS"

FlagFULLPROPS == "FULL_PROPS"

\* h(tag, props, children, key = null): a new object { tag, props, children,
\* key, flags: 0 }, id its identity.
H(id, tag, props, children) ==
    [type |-> "vnode", id |-> id, tag |-> tag, props |-> props,
     children |-> children, key |-> "null", flags |-> {}]

\* text.match(/^{{(.+?)}}$/): the text starts with "{{" and ends with "}}".
MustacheTokens == {"{{a}}", "{{ a }}", "{{item}}", "{{index}}"}

DollarTokens == {"$a"}

IsMustacheText(text) ==
    text # <<>> /\ Head(text) \in MustacheTokens /\ text[Len(text)] \in MustacheTokens

\* text.slice(2, -2): what stands between the first "{{" and the last "}}";
\* of a text of several tokens, a string that names no property.
MustacheInner(text) ==
    IF Len(text) = 1
    THEN (IF text[1] = "{{a}}" THEN <<"a">>
          ELSE IF text[1] = "{{item}}" THEN <<"item">>
          ELSE IF text[1] = "{{index}}" THEN <<"index">>
          ELSE <<" ", "a", " ">>)
    ELSE <<"}}{{">>

\* match.slice(1) of a "$name" token.
DollarName(token) == <<"a">>

\* The accessors the compiler makes: closures over an expression (or, for a
\* text with "$name" tokens, over the text) that read context.state.get().
Accessor(kind, over) == [t |-> "function", v |-> kind, f |-> over]

\* unwrap(this.evaluate(expr, context.state.get()))
EvalIn(expr, state) == Unref(Evaluate(expr, state))

\* result.replace(match, value || "") for each "$name" token of the text.
DollarText(text, state) ==
    LET sub(token) ==
            IF token \in DollarTokens
            THEN LET value == EvalIn(Trim(DollarName(token)), state)
                 IN  IF value.t = "string" /\ value.v # "" THEN <<value.v>> ELSE <<>>
            ELSE <<token>>
        F[i \in 0..Len(text)] == IF i = 0 THEN <<>> ELSE F[i - 1] \o sub(text[i])
    IN  F[Len(text)]

\* The class normalisation of bind:class (lines 431-443): a string as it is;
\* the state of the model holds no array and no object under a class name.
ClassString(value) == IF value.t = "string" THEN value ELSE Str("")

\* A call of an accessor.
CallAccessor(acc, state) ==
    IF acc.v = "bind" THEN EvalIn(acc.f, state)
    ELSE IF acc.v = "class" THEN ClassString(EvalIn(acc.f, state))
    ELSE IF acc.v = "mustache" THEN EvalIn(acc.f, state)
    ELSE IF acc.v = "event" THEN Undef
    ELSE Str("")

\* The attribute names of the model and how lines 424-510 read each: the
\* prop it sets, the accessor it makes, the flag it adds.
BoundGeneric == {":title", "z-bind:title", "bind:title", ":class", "z-bind:class"}

BoundClass == {"bind:class", "bind-class"}

PlainNames == {"title", "id"}

AttrNames == BoundGeneric \cup BoundClass \cup PlainNames

\* The event bindings of the model (lines 469-476): the name without "z-on:"
\* or "@", split on "."; the first part is the event, the others modifiers.
EventNames == {"@click", "z-on:click", "@click.prevent"}

Modifiers(name) == IF name = "@click.prevent" THEN {"prevent"} ELSE {}

\* context.methods: the names of the methods of the context.
KeyInc == <<"inc">>

Methods == {KeyInc}

PropOf(name) ==
    IF name \in {":title", "z-bind:title", "bind:title"} THEN "title"
    ELSE IF name \in EventNames THEN "@click"
    ELSE IF name \in {":class", "z-bind:class", "bind:class", "bind-class"} THEN "class"
    ELSE name

ScopeId == "litez-scope"

\* The structural directives of the model (lines 478-496): the attribute
\* names that fill directives and set no prop.
IfNames == {"z-if", "show-when"}

ForNames == {"z-for", "repeat"}

DirectiveNames == IfNames \cup ForNames \cup {"z-once"}

\* attr.value.split(" in ") or split(" from "), each part trimmed: the part
\* before the first separator and the part after it (up to a second one);
\* without the separator the value whole and undefined.
SplitItemList(value, sep) ==
    IF \E i \in DOMAIN value : value[i] = sep
    THEN LET at == CHOOSE i \in DOMAIN value :
                       value[i] = sep /\ \A j \in 1..(i - 1) : value[j] # sep
             rest == SubSeq(value, at + 1, Len(value))
             upto == IF \E i \in DOMAIN rest : rest[i] = sep
                     THEN (CHOOSE i \in DOMAIN rest :
                              rest[i] = sep /\ \A j \in 1..(i - 1) : rest[j] # sep) - 1
                     ELSE Len(rest)
         IN  [item |-> Trim(SubSeq(value, 1, at - 1)), list |-> Trim(SubSeq(rest, 1, upto)),
              found |-> TRUE]
    ELSE [item |-> Trim(value), list |-> <<>>, found |-> FALSE]

\* The directives object after attrs.forEach: for each directive name among
\* the attributes, the value its last attribute gave it.
ParseDirectives(attrs) ==
    LET key(name) == IF name = "repeat" THEN "z-for" ELSE name
        names == {key(attrs[i].name) : i \in {j \in DOMAIN attrs : attrs[j].name \in DirectiveNames}}
        last(k) == attrs[CHOOSE i \in DOMAIN attrs :
                       /\ attrs[i].name \in DirectiveNames /\ key(attrs[i].name) = k
                       /\ \A j \in DOMAIN attrs :
                             (attrs[j].name \in DirectiveNames /\ key(attrs[j].name) = k) => j <= i]
    IN  [k \in names |->
            IF k \in IfNames THEN [kind |-> "condition", expr |-> last(k).value, list |-> <<>>]
            ELSE IF k = "z-for"
            THEN LET parts == SplitItemList(last(k).value,
                                  IF last(k).name = "z-for" THEN " in " ELSE " from ")
                 IN  [kind |-> "for", expr |-> parts.item, list |-> parts.list]
            ELSE [kind |-> "true", expr |-> <<>>, list |-> <<>>]]

\* attrs.forEach(...): the props and the flags after the attributes from i on.
RECURSIVE ParseAttrs(_, _, _, _)
ParseAttrs(attrs, i, props, flags) ==
    IF i > Len(attrs) THEN [props |-> props, flags |-> flags]
    ELSE LET a == attrs[i]
             key == PropOf(a.name)
         IN  IF a.name \in BoundGeneric
             THEN ParseAttrs(attrs, i + 1,
                      (key :> Accessor("bind", a.value)) @@ props,
                      flags \cup {IF key = "class" THEN FlagCLASS ELSE FlagPROPS})
             ELSE IF a.name \in BoundClass
             THEN ParseAttrs(attrs, i + 1,
                      (key :> Accessor("class", a.value)) @@ props,
                      flags \cup {FlagCLASS})
             ELSE IF a.name \in EventNames
             THEN ParseAttrs(attrs, i + 1,
                      (key :> Accessor("event", [method |-> a.value,
                                                 modifiers |-> Modifiers(a.name)]))
                      @@ props,
                      flags)
             ELSE IF a.name \in DirectiveNames
             THEN ParseAttrs(attrs, i + 1, props, flags)
             ELSE ParseAttrs(attrs, i + 1, (key :> Str(a.value)) @@ props, flags)

\* parseNode of a text node (lines 378-408).
ParseText(text) ==
    LET t == Trim(text)
    IN  IF t = <<>> THEN NullNode
        ELSE IF IsMustacheText(t)
        THEN [type |-> "dynamicText",
              value |-> Accessor("mustache", Trim(MustacheInner(t))),
              flags |-> {FlagTEXT}]
        ELSE IF \E i \in DOMAIN t : t[i] \in DollarTokens
        THEN [type |-> "dynamicText", value |-> Accessor("dollar", t),
              flags |-> {FlagTEXT}]
        ELSE [type |-> "staticText", value |-> t]

\* parseNode (lines 377-552) of the node and, for an element, of its child
\* nodes from left to right.  c carries the next identity to give (next), the
\* vnodes the staticNodes map holds by identity (statics) and the VNodes it
\* holds under a z-once key (once); state is what context.state.get()
\* returns while the template is compiled.
RECURSIVE ParseNode(_, _, _)
RECURSIVE ParseChildren(_, _, _, _, _)
RECURSIVE BuildVNode(_, _, _)
RECURSIVE BuildChildren(_, _, _, _, _)
ParseChildren(childNodes, i, c, state, done) ==
    IF i > Len(childNodes) THEN [c |-> c, nodes |-> done]
    ELSE LET r == ParseNode(childNodes[i], c, state)
         IN  ParseChildren(childNodes, i + 1, r.c, state,
                 IF r.node.type = "null" THEN done ELSE Append(done, r.node))

\* !Object.keys(directives).length &&
\* !children.some((c) => c.type !== "staticText")   (line 545)
IsStaticElement(directives, children) ==
    directives = {} /\ \A i \in DOMAIN children : children[i].type = "staticText"

\* `${scopeId}-${node.tagName}-${children.length}`
OnceKey(tag, children) == [tag |-> tag, length |-> Len(children)]

ParseNode(node, c, state) ==
    IF node.type = "#text" THEN [c |-> c, node |-> ParseText(node.text)]
    ELSE IF node.type = "#element"
    THEN LET a == ParseAttrs(node.attrs, 1, "data-litez-scope" :> Str(ScopeId), {})
             directives == ParseDirectives(node.attrs)
             kids == ParseChildren(node.childNodes, 1, c, state, <<>>)
         IN  IF "z-if" \in DOMAIN directives
             THEN [c |-> kids.c,
                   node |-> [type |-> "if",
                             condition |-> Accessor("bind", directives["z-if"].expr),
                             children |-> kids.nodes, flags |-> a.flags]]
             ELSE IF "show-when" \in DOMAIN directives
             THEN [c |-> kids.c,
                   node |-> [type |-> "if",
                             condition |-> Accessor("bind", directives["show-when"].expr),
                             children |-> kids.nodes, flags |-> a.flags]]
             ELSE IF "z-for" \in DOMAIN directives
             THEN [c |-> kids.c,
                   node |-> [type |-> "for", item |-> directives["z-for"].expr,
                             list |-> directives["z-for"].list,
                             children |-> kids.nodes, flags |-> a.flags]]
             ELSE IF "z-once" \in DOMAIN directives
             THEN LET built == BuildChildren(kids.nodes, 1, kids.c, state, <<>>)
                      id == built.c.next
                      onceKey == OnceKey(node.tag, kids.nodes)
                  IN  [c |-> [built.c EXCEPT
                                !.next = id + 1,
                                !.once = (onceKey :> H(id, node.tag, a.props, built.vals))
                                         @@ built.c.once],
                       node |-> [type |-> "once", onceKey |-> onceKey, flags |-> {}]]
             ELSE LET id == kids.c.next
                      vnode == [H(id, node.tag, a.props, kids.nodes)
                                   EXCEPT !.flags = a.flags]
                  IN  [c |-> [kids.c EXCEPT
                                !.next = id + 1,
                                !.statics = IF IsStaticElement(DOMAIN directives, kids.nodes)
                                            THEN kids.c.statics \cup {id}
                                            ELSE kids.c.statics],
                       node |-> vnode]
    ELSE [c |-> c, node |-> NullNode]

\* array.flat(): the arrays among the items spliced in, one level.
RECURSIVE Flat(_)
Flat(items) ==
    IF items = <<>> THEN <<>>
    ELSE (IF Head(items).type = "array" THEN Head(items).items ELSE <<Head(items)>>)
         \o Flat(Tail(items))

\* An array a build returns.
ArrayNode(items) == [type |-> "array", items |-> items]

\* unwrap(evaluate(node.list, state)) || [] as list.map walks it: the items
\* of an array; none for undefined and for an object without a length.
ListItems(value) ==
    IF value.t = "object" /\ value.v = "array"
    THEN [i \in 1..(Cardinality(DOMAIN value.f) - 1) |-> value.f[<<Digits[i]>>]]
    ELSE <<>>

\* The state of the scope line 563 derives for an iteration: the properties
\* of the parent state, the loop variable and index.
DerivedScope(state, item, value, index) ==
    Obj((item :> value) @@ (<<"index">> :> Num(index)) @@ state.f)

\* { ...child, context: childContext }: a new object with the properties of
\* child, which staticNodes does not hold; the accessors in it are those
\* parseNode made, over the context of the template.
CopyOf(child) == IF child.type = "vnode" THEN [child EXCEPT !.id = 0] ELSE child

\* typeof v === "function" ? v() : v (line 574) on the wrapper of an event
\* binding: a call without an event.  With a modifier, e.preventDefault() or
\* e.stopPropagation() on undefined throws a TypeError; without one, the
\* method of the context is called with undefined (the empty function when
\* the context has no such method), and the wrapper returns undefined.  An
\* element of the model has one event key at most.
WrapperCalls(c, props) ==
    LET events == {k \in DOMAIN props :
                      props[k].t = "function" /\ props[k].v = "event"}
    IN  IF events = {} THEN c
        ELSE LET w == props[CHOOSE k \in events : TRUE].f
             IN  IF w.modifiers # {} THEN [c EXCEPT !.threw = TRUE]
                 ELSE IF w.method \in Methods
                 THEN [c EXCEPT !.calls = Append(c.calls, w.method)]
                 ELSE c

\* (CHOOSE x \in {e : r \in {v}} : TRUE is e with r naming the value of v.)
\* buildVNode (lines 554-579), its map over the children of a node, and the
\* list.map of a for node from the item at index on.  The scope line 563
\* derives for an iteration goes into the context property of the copies,
\* which no build reads: the children are built over the state of the
\* template.
RECURSIVE BuildItems(_, _, _, _, _, _)
BuildChildren(children, i, c, state, done) ==
    IF i > Len(children) THEN [c |-> c, vals |-> done]
    ELSE CHOOSE built \in
            {IF r.c.threw THEN [c |-> r.c, vals |-> done]
             ELSE BuildChildren(children, i + 1, r.c, state, Append(done, r.val)) :
                r \in {BuildVNode(children[i], c, state)}} : TRUE

BuildItems(node, items, index, c, state, done) ==
    IF index >= Len(items) THEN [c |-> c, vals |-> done]
    ELSE LET copies == [k \in DOMAIN node.children |-> CopyOf(node.children[k])]
         IN  CHOOSE built \in
                {IF r.c.threw THEN [c |-> r.c, vals |-> done]
                 ELSE BuildItems(node, items, index + 1, r.c, state, done \o r.vals) :
                    r \in {BuildChildren(copies, 1, c, state, <<>>)}} : TRUE

BuildVNode(node, c, state) ==
    IF node.type = "null" THEN [c |-> c, val |-> NullNode]
    ELSE IF node.type = "staticText" THEN [c |-> c, val |-> StringNode(node.value)]
    ELSE IF node.type = "dynamicText"
    THEN [c |-> c,
          val |-> IF node.value.v = "dollar"
                  THEN StringNode(DollarText(node.value.f, state))
                  ELSE AsNode(CallAccessor(node.value, state))]
    ELSE IF node.type = "if"
    THEN (IF Truthy(CallAccessor(node.condition, state))
          THEN LET kids == BuildChildren(node.children, 1, c, state, <<>>)
               IN  [c |-> kids.c, val |-> ArrayNode(Flat(kids.vals))]
          ELSE [c |-> c, val |-> ArrayNode(<<>>)])
    ELSE IF node.type = "for"
    THEN LET r == BuildItems(node, ListItems(EvalIn(node.list, state)), 0, c, state, <<>>)
         IN  [c |-> r.c, val |-> ArrayNode(r.vals)]
    ELSE IF node.type = "once"
    THEN [c |-> c,
          val |-> IF node.onceKey \in DOMAIN c.once THEN c.once[node.onceKey]
                  ELSE UndefinedNode]
    ELSE IF node.id \in c.statics THEN [c |-> c, val |-> node]
    ELSE LET props == [k \in DOMAIN node.props |->
                          IF node.props[k].t = "function"
                          THEN CallAccessor(node.props[k], state)
                          ELSE node.props[k]]
         IN  CHOOSE built \in
                {IF called.threw THEN [c |-> called, val |-> NullNode]
                 ELSE CHOOSE made \in
                         {[c |-> [kids.c EXCEPT !.next = kids.c.next + 1],
                           val |-> [H(kids.c.next, node.tag, props, Flat(kids.vals))
                                       EXCEPT !.flags = node.flags]] :
                             kids \in {BuildChildren(node.children, 1, called, state,
                                                     <<>>)}} : TRUE :
                    called \in {WrapperCalls(c, node.props)}} : TRUE

\* What JavaScript takes for false among the values a build returns.
Falsy(val) ==
    \/ val.type \in {"null", "undefined"}
    \/ val.type = "string" /\ val.value = <<>>

NoResult == [threw |-> FALSE, val |-> NoChild]

\* The state the templates of the model read: a is absent, "0" or "1".
TplStates == {Obj(NoProps), Obj(KeyA :> Str("0")), Obj(KeyA :> Str("1"))}

MaxRenders == 3

\* compileTemplate (lines 366-599): parseNode(root.firstChild) throws on an
\* empty template (no first child), and the catch returns the stub render.
CompileTemplate(first, state) ==
    IF first.type = "none"
    THEN [phase |-> "ready", dom |-> first, ok |-> FALSE, rootNode |-> NullNode,
          statics |-> {}, once |-> NoProps, next |-> 1, cachedRender |-> NoChild,
          state |-> state, last |-> NoResult, prev |-> NoResult, nrenders |-> 0,
          built |-> FALSE, dirty |-> FALSE, afterWrite |-> FALSE, invoked |-> <<>>]
    ELSE LET r == ParseNode(first, [next |-> 1, statics |-> {}, once |-> NoProps,
                                    calls |-> <<>>, threw |-> FALSE],
                            state)
         IN  [phase |-> "ready", dom |-> first, ok |-> ~r.c.threw,
              rootNode |-> IF r.c.threw THEN NullNode ELSE r.node,
              statics |-> r.c.statics, once |-> r.c.once, next |-> r.c.next, cachedRender |-> NoChild,
              state |-> state, last |-> NoResult, prev |-> NoResult,
              nrenders |-> 0, built |-> FALSE, dirty |-> FALSE, afterWrite |-> FALSE,
              invoked |-> r.c.calls]

\* rootNode.flags as a condition: no flags property (a text, null read as a
\* TypeError before) and 0 are false.
RootFlagged(rootNode) ==
    rootNode.type \in {"dynamicText", "vnode", "if", "for", "once"}
    /\ rootNode.flags # {}

\* One call of the render() compileTemplate returned (lines 586-591), or of
\* the stub of line 597.  t is the compiled template; the result is t after
\* the call, with the value returned in last, or threw when the call threw.
RenderCall(t) ==
    LET moved == [t EXCEPT !.prev = t.last, !.nrenders = t.nrenders + 1,
                           !.afterWrite = t.dirty, !.dirty = FALSE,
                           !.invoked = <<>>]
    IN  IF ~t.ok
        THEN [moved EXCEPT
                !.next = t.next + 1,
                !.built = FALSE,
                !.last = [threw |-> FALSE,
                          val |-> H(t.next, "div", NoProps,
                                    <<StringNode(<<"Error compiling template">>)>>)]]
        ELSE IF t.cachedRender.type # "none" /\ t.rootNode.type = "null"
        THEN [moved EXCEPT !.built = FALSE,
                           !.last = [threw |-> TRUE, val |-> NoChild]]
        ELSE IF t.cachedRender.type # "none" /\ ~RootFlagged(t.rootNode)
        THEN [moved EXCEPT !.built = FALSE,
                           !.last = [threw |-> FALSE, val |-> t.cachedRender]]
        ELSE LET r == BuildVNode(t.rootNode,
                                 [next |-> t.next, statics |-> t.statics,
                                  once |-> t.once, calls |-> <<>>,
                                  threw |-> FALSE], t.state)
                 result == IF Falsy(r.val)
                           THEN H(r.c.next, "div", NoProps, <<StringNode(<<>>)>>)
                           ELSE r.val
             IN  IF r.c.threw
                 THEN [moved EXCEPT !.next = r.c.next, !.built = FALSE,
                                    !.invoked = r.c.calls,
                                    !.last = [threw |-> TRUE, val |-> NoChild]]
                 ELSE [moved EXCEPT
                    !.next = IF Falsy(r.val) THEN r.c.next + 1 ELSE r.c.next,
                    !.cachedRender = result,
                    !.built = TRUE,
                    !.invoked = r.c.calls,
                    !.last = [threw |-> FALSE, val |-> result]]

\* The templates of the model, each by the first child of its parsed
\* content: a text, an element of up to two children, or none.
RootTexts ==
    {<<" ">>, <<"hi">>, <<" ", "hi", " ">>, <<"{{a}}">>, <<"{{ a }}">>,
     <<" ", "{{a}}">>, <<"$a">>, <<"hi", " ", "$a">>, <<"hi", " ", "{{a}}">>}

ChildTexts == {<<"hi">>, <<"{{a}}">>, <<" ">>, <<"$a">>}

LeafElements ==
    {ElementNode("p", at, ch) :
        at \in {<<>>, <<Attr(":title", KeyA)>>, <<Attr("bind:class", KeyA)>>},
        ch \in {<<>>, <<TextNode(<<"hi">>)>>, <<TextNode(<<"{{a}}">>)>>}}

ChildNodes == {TextNode(t) : t \in ChildTexts} \cup LeafElements

RootAttrs ==
    {<<>>, <<Attr("id", "x")>>, <<Attr("title", "x")>>,
     <<Attr("id", "x"), Attr(":title", KeyA)>>}
    \cup {<<Attr(n, KeyA)>> : n \in BoundGeneric \cup BoundClass}

RootElements ==
    {ElementNode("div", at, ch) :
        at \in RootAttrs,
        ch \in {<<>>} \cup {<<x>> : x \in ChildNodes}
               \cup {<<x, y>> : x \in ChildNodes, y \in ChildNodes}}

Templates == {NoChild} \cup {TextNode(t) : t \in RootTexts} \cup RootElements

TplIdle == [phase |-> "none"]

\* compileTemplate(templateString, context) over a state new or written.
TplCompile ==
    /\ tpl.phase = "none"
    /\ \E first \in Templates, state \in TplStates :
          tpl' = CompileTemplate(first, state)
    /\ UNCHANGED <<ev, rs, dom, lz>>

\* A call of the render() the compiler returned.
TplRender ==
    /\ tpl.phase = "ready"
    /\ tpl.nrenders < MaxRenders
    /\ tpl' = RenderCall(tpl)
    /\ UNCHANGED <<ev, rs, dom, lz>>

\* context.state.set("a", value): what context.state.get() returns after.
TplWrite ==
    /\ tpl.phase = "ready"
    /\ \E value \in {"0", "1"} :
          tpl' = [tpl EXCEPT !.state = Obj(KeyA :> Str(value)), !.dirty = TRUE]
    /\ UNCHANGED <<ev, rs, dom, lz>>

\* The child nodes parseNode keeps: all but the blank texts.
NonBlank(childNodes) ==
    SelectSeq(childNodes, LAMBDA n : ~(n.type = "#text" /\ Trim(n.text) = <<>>))

HasToken(text) == \E i \in DOMAIN text : text[i] \in MustacheTokens \cup DollarTokens

IsBound(name) == name \in BoundGeneric \cup BoundClass

\* The template holds a binding: an interpolation in a text or a bound
\* attribute on an element.
RECURSIVE HasBinding(_)
HasBinding(d) ==
    IF d.type = "#text" THEN HasToken(d.text)
    ELSE IF d.type = "#element"
    THEN \/ \E i \in DOMAIN d.attrs : IsBound(d.attrs[i].name)
         \/ \E i \in DOMAIN d.childNodes : HasBinding(d.childNodes[i])
    ELSE FALSE

\* The text with each interpolation replaced by the value of a in the state.
CurrentText(text, state) ==
    LET t == Trim(text)
        value == GetProp(state, KeyA)
        F[i \in 0..Len(t)] ==
            IF i = 0 THEN <<>>
            ELSE F[i - 1] \o (IF t[i] \in MustacheTokens \cup DollarTokens
                              THEN (IF value.t = "string" THEN <<value.v>> ELSE <<>>)
                              ELSE <<t[i]>>)
    IN  F[Len(t)]

\* The value a bound attribute stands for in the state.
CurrentAttr(attr, state) ==
    IF attr.name \in BoundClass
    THEN (IF GetProp(state, attr.value).t = "string"
          THEN GetProp(state, attr.value) ELSE Str(""))
    ELSE GetProp(state, attr.value)

\* The tree v shows the state at every binding of the template d.
RECURSIVE Current(_, _, _)
Current(d, v, state) ==
    IF d.type = "#text"
    THEN HasToken(d.text) => (v.type = "string" /\ v.value = CurrentText(d.text, state))
    ELSE /\ v.type = "vnode"
         /\ \A i \in DOMAIN d.attrs :
               IsBound(d.attrs[i].name) =>
                   v.props[PropOf(d.attrs[i].name)] = CurrentAttr(d.attrs[i], state)
         /\ LET kept == NonBlank(d.childNodes)
            IN  /\ Len(v.children) = Len(kept)
                /\ \A i \in DOMAIN kept : Current(kept[i], v.children[i], state)

\* C3: for a template with a binding, the render() that follows a state write
\* returns (and does not throw) a tree whose every interpolated text and every
\* bound attribute holds the value of its expression in the state as written.
C3_RenderAfterWriteIsCurrent ==
    (/\ tpl.phase = "ready"
     /\ tpl.nrenders > 0
     /\ tpl.afterWrite
     /\ ~tpl.dirty
     /\ HasBinding(tpl.dom))
    => (~tpl.last.threw /\ Current(tpl.dom, tpl.last.val, tpl.state))

\* C9: for a template without binding, the second of two successive render()
\* calls returns, without throwing, the very value the first returned: the
\* same VNode (by identity) or the same string.
C9_StaticRenderIdentical ==
    (/\ tpl.phase = "ready"
     /\ tpl.nrenders >= 2
     /\ ~HasBinding(tpl.dom))
    => (/\ ~tpl.prev.threw
        /\ ~tpl.last.threw
        /\ tpl.last.val = tpl.prev.val)

\* Every element of d with a bound attribute is, in v, a VNode whose prop is
\* the value of the expression, not a function, with the CLASS flag for
\* class and the PROPS flag otherwise.
RECURSIVE BoundBuilt(_, _, _)
BoundBuilt(d, v, state) ==
    IF d.type # "#element" THEN TRUE
    ELSE /\ v.type = "vnode"
         /\ \A i \in DOMAIN d.attrs :
               LET key == PropOf(d.attrs[i].name)
               IN  IsBound(d.attrs[i].name) =>
                      /\ v.props[key].t # "function"
                      /\ v.props[key] = CurrentAttr(d.attrs[i], state)
                      /\ (IF key = "class" THEN FlagCLASS ELSE FlagPROPS) \in v.flags
         /\ LET kept == NonBlank(d.childNodes)
            IN  \A i \in DOMAIN kept :
                   i \in DOMAIN v.children /\ BoundBuilt(kept[i], v.children[i], state)

\* C10: whenever render() ran a build, every element with a bound attribute
\* came out as a VNode whose bound prop is the current value of the expression,
\* with the CLASS or PROPS flag, whatever the children of the element.
C10_BoundPropsAreValues ==
    (/\ tpl.phase = "ready"
     /\ tpl.built
     /\ ~tpl.dirty)
    => (~tpl.last.threw /\ BoundBuilt(tpl.dom, tpl.last.val, tpl.state))

(***************************************************************************)
(* Templates with the structural directives: z-if / show-when, z-for /     *)
(* repeat and z-once.                                                      *)
(***************************************************************************)
KeyItem == <<"item">>

KeyList == <<"list">>

KeyShow == <<"show">>

\* The states the directive templates read: a, a list of up to MaxItems
\* strings and the flag show.
MaxItems == 2

DirLists == {Arr(SubSeq(<<Str("x"), Str("y"), Str("z")>>, 1, n)) : n \in 0..MaxItems}

DirStates ==
    {Obj(KeyA :> Str(a) @@ KeyList :> list @@ KeyShow :> Bool(show)) :
        a \in {"0", "1"}, list \in DirLists, show \in BOOLEAN}

ForAttrs ==
    {<<Attr("z-for", <<"item", " in ", "list">>)>>,
     <<Attr("repeat", <<"item", " from ", "list">>)>>}

IfAttrs == {<<Attr(n, KeyShow)>> : n \in IfNames}

\* The bodies of a loop: a text, or an element with z-if or z-for itself.
DirBodies ==
    {TextNode(<<t>>) : t \in {"{{item}}", "{{index}}", "{{a}}", "hi"}}
    \cup {ElementNode("b", at, <<TextNode(<<"hi">>)>>) :
             at \in {<<Attr("z-if", KeyShow)>>,
                     <<Attr("z-for", <<"item", " in ", "list">>)>>}}

OnceElements ==
    {ElementNode("i", <<Attr("z-once", <<>>)>>, <<TextNode(<<t>>)>>) :
        t \in {"hi", "yo", "{{a}}"}}

DirChildren ==
    {ElementNode("li", at, <<body>>) : at \in ForAttrs, body \in DirBodies}
    \cup {ElementNode("p", at, <<TextNode(<<t>>)>>) : at \in IfAttrs, t \in {"hi", "{{a}}"}}
    \cup OnceElements
    \cup {TextNode(<<"hi">>)}

DirTemplates ==
    {ElementNode("div", at, ch) :
        at \in {<<>>, <<Attr(":title", KeyA)>>},
        ch \in {<<x>> : x \in DirChildren}
               \cup {<<x, y>> : x \in DirChildren,
                                 y \in OnceElements \cup {TextNode(<<"hi">>)}}}

\* compileTemplate(templateString, context) of a template with directives.
DirCompile ==
    /\ tpl.phase = "none"
    /\ \E first \in DirTemplates, state \in DirStates :
          tpl' = CompileTemplate(first, state)
    /\ UNCHANGED <<ev, rs, dom, lz>>

\* context.state.set(key, value) for one of the keys the templates read.
DirWrite ==
    /\ tpl.phase = "ready"
    /\ \E state \in DirStates :
          /\ Cardinality({k \in DOMAIN state.f : state.f[k] # tpl.state.f[k]}) = 1
          /\ tpl' = [tpl EXCEPT !.state = state, !.dirty = TRUE]
    /\ UNCHANGED <<ev, rs, dom, lz>>

\* The element is a loop over the list of the state with one mustache text
\* as its body.
IsTextLoop(d) ==
    /\ d.type = "#element"
    /\ d.attrs \in ForAttrs
    /\ Len(d.childNodes) = 1
    /\ d.childNodes[1].type = "#text"
    /\ IsMustacheText(d.childNodes[1].text)

\* What the body of a text loop yields in iteration i (from 0) when it is
\* evaluated against the scope derived for that iteration.
ScopedText(d, state, i) ==
    LET items == ListItems(GetProp(state, KeyList))
    IN  AsNode(EvalIn(Trim(MustacheInner(d.childNodes[1].text)),
                      DerivedScope(state, KeyItem, items[i + 1], i)))

\* C11: when render() built the tree of <div> with one loop over a mustache
\* text, the children of the div are, in iteration order, the values of the
\* text in the scope derived for each iteration: the parent state plus the
\* loop variable bound to list[i] and index bound to i.
C11_LoopBodyReadsDerivedScope ==
    (/\ tpl.phase = "ready"
     /\ tpl.built
     /\ ~tpl.dirty
     /\ Len(tpl.dom.childNodes) = 1
     /\ IsTextLoop(tpl.dom.childNodes[1]))
    => LET n == Len(ListItems(GetProp(tpl.state, KeyList)))
       IN  /\ ~tpl.last.threw
           /\ tpl.last.val.type = "vnode"
           /\ tpl.last.val.children =
                 [i \in 1..n |-> ScopedText(tpl.dom.childNodes[1], tpl.state, i - 1)]

\* The types of the nodes parseNode makes for buildVNode to read.
IntermediateTypes == {"staticText", "dynamicText", "if", "for", "once"}

\* No entry of the children of v, or of a VNode below v, is an array or an
\* intermediate node.
RECURSIVE ChildrenAreFinal(_)
ChildrenAreFinal(v) ==
    v.type = "vnode" =>
        \A i \in DOMAIN v.children :
            /\ v.children[i].type \notin {"array"} \cup IntermediateTypes
            /\ ChildrenAreFinal(v.children[i])

\* C12: in the tree a render() returned, no entry of the children of a VNode
\* is an array, however z-if and z-for are nested, and none is an
\* intermediate node of the compiler.
C12_ChildrenAreFinal ==
    (tpl.phase = "ready" /\ tpl.nrenders > 0 /\ ~tpl.last.threw)
    => ChildrenAreFinal(tpl.last.val)

\* The element carries z-once.
IsOnce(d) ==
    d.type = "#element" /\ \E i \in DOMAIN d.attrs : d.attrs[i].name = "z-once"

\* The children a build over the state gives the z-once element d of the
\* model, whose body is one text.
OnceBody(d, state) ==
    LET t == Trim(d.childNodes[1].text)
    IN  <<IF IsMustacheText(t) THEN AsNode(EvalIn(Trim(MustacheInner(t)), state))
          ELSE StringNode(t)>>

\* C13: when render() built the tree of a <div> of z-once elements and
\* static texts, the child at the place of each z-once element is the VNode
\* built for that element when the template was compiled: it has the tag of
\* the element; its children are those of the element, as the state at compile
\* time gave them (a static body whatever the state; any body when no write
\* came between the compilation and the build); and it is the VNode the
\* build before returned at that place.
C13_OnceReturnsOwnVNode ==
    (/\ tpl.phase = "ready"
     /\ tpl.built
     /\ \A i \in DOMAIN tpl.dom.childNodes :
           IsOnce(tpl.dom.childNodes[i]) \/ tpl.dom.childNodes[i].type = "#text")
    => /\ ~tpl.last.threw
       /\ tpl.last.val.type = "vnode"
       /\ \A i \in DOMAIN tpl.dom.childNodes :
             LET d == tpl.dom.childNodes[i]
                 v == tpl.last.val.children[i]
             IN  IsOnce(d) =>
                    /\ v.type = "vnode"
                    /\ v.tag = d.tag
                    /\ ~HasToken(d.childNodes[1].text)
                          => v.children = OnceBody(d, tpl.state)
                    /\ (tpl.nrenders = 1 /\ ~tpl.afterWrite /\ ~tpl.dirty)
                          => v.children = OnceBody(d, tpl.state)
                    /\ (tpl.nrenders > 1 /\ tpl.prev.val.type = "vnode")
                          => v = tpl.prev.val.children[i]

(***************************************************************************)
(* The document, render(node, container) and update(parent, newNode,       *)
(* oldNode, index).                                                        *)
(*                                                                         *)
(* A document is a heap of DOM nodes, nodes[n] the node of identity n, 0   *)
(* standing for null and undefined.  VNodes are the records of h and the   *)
(* strings of the template model; the VNodes of the model are elements,    *)
(* strings, null and undefined, and no call passes a nonce.                *)
(***************************************************************************)
TextDom(text) ==
    [kind |-> "text", tag |-> "#text", text |-> text, attrs |-> NoProps,
     kids |-> <<>>, parent |-> 0, key |-> "null", flags |-> {},
     cleanup |-> 0, listeners |-> NoProps, mapped |-> FALSE, emap |-> NoProps]

ElDom(tag, key, flags) ==
    [kind |-> "el", tag |-> tag, text |-> <<>>, attrs |-> NoProps,
     kids |-> <<>>, parent |-> 0, key |-> key, flags |-> flags,
     cleanup |-> 0, listeners |-> NoProps, mapped |-> FALSE, emap |-> NoProps]

\* document.createElement / document.createTextNode: the new node is the last.
AddNode(d, node) == [d EXCEPT !.nodes = Append(d.nodes, node)]

LastId(d) == Len(d.nodes)

\* The node leaves the parent it has, if any.
Detach(d, n) ==
    LET p == d.nodes[n].parent
    IN  IF p = 0 THEN d
        ELSE [d EXCEPT !.nodes = [m \in DOMAIN d.nodes |->
                 IF m = p THEN [d.nodes[m] EXCEPT !.kids = SelectSeq(d.nodes[p].kids, LAMBDA x : x # n)]
                 ELSE IF m = n THEN [d.nodes[m] EXCEPT !.parent = 0]
                 ELSE d.nodes[m]]]

\* parent.appendChild(n)
AppendChild(d, parent, n) ==
    LET e == Detach(d, n)
    IN  [e EXCEPT !.nodes = [m \in DOMAIN e.nodes |->
            IF m = parent THEN [e.nodes[m] EXCEPT !.kids = Append(e.nodes[parent].kids, n)]
            ELSE IF m = n THEN [e.nodes[m] EXCEPT !.parent = parent]
            ELSE e.nodes[m]]]

\* parent.childNodes[index], index counted from 0; 0 for undefined.
ChildAt(d, parent, index) ==
    IF index + 1 \in DOMAIN d.nodes[parent].kids
    THEN d.nodes[parent].kids[index + 1] ELSE 0

\* array[index], index counted from 0.
At(array, index) ==
    IF index + 1 \in DOMAIN array THEN array[index + 1] ELSE UndefinedNode

IndexOf(seq, n) == CHOOSE i \in DOMAIN seq : seq[i] = n

\* The teardown calls of update in the order it makes them: the node's
\* cleanup ("cleanup"), its removal or replacement ("detach"), the deletion
\* of its listener record ("unmap").
Traced(d, op, n) == [d EXCEPT !.trace = Append(d.trace, [op |-> op, node |-> n])]

\* parent.removeChild(child), child a child of parent.
RemoveChild(d, parent, child) == Traced(Detach(d, child), "detach", child)

\* parent.replaceChild(newEl, child), child a child of parent and newEl not.
ReplaceChild(d, parent, newEl, child) ==
    LET e == Detach(d, newEl)
        at == IndexOf(e.nodes[parent].kids, child)
    IN  Traced([e EXCEPT !.nodes = [m \in DOMAIN e.nodes |->
                   IF m = parent THEN [e.nodes[m] EXCEPT !.kids[at] = newEl]
                   ELSE IF m = newEl THEN [e.nodes[m] EXCEPT !.parent = parent]
                   ELSE IF m = child THEN [e.nodes[m] EXCEPT !.parent = 0]
                   ELSE e.nodes[m]]],
               "detach", child)

InsertAt(seq, at, n) == SubSeq(seq, 1, at - 1) \o <<n>> \o SubSeq(seq, at, Len(seq))

\* parent.insertBefore(n, ref): ref undefined appends; n before itself stays.
InsertBefore(d, parent, n, ref) ==
    IF ref = 0 THEN AppendChild(d, parent, n)
    ELSE IF ref = n THEN d
    ELSE LET e == Detach(d, n)
             at == IndexOf(e.nodes[parent].kids, ref)
         IN  [e EXCEPT !.nodes = [m \in DOMAIN e.nodes |->
                 IF m = parent
                 THEN [e.nodes[m] EXCEPT !.kids = InsertAt(e.nodes[parent].kids, at, n)]
                 ELSE IF m = n THEN [e.nodes[m] EXCEPT !.parent = parent]
                 ELSE e.nodes[m]]]

\* String(value), as setAttribute stores it.
AttrString(value) ==
    IF value.t = "string" THEN value.v
    ELSE IF value.t = "null" THEN "null"
    ELSE "undefined"

\* el.setAttribute(key, value); el.dataset[dataKey] = value writes the
\* attribute "data-" + dataKey, the key itself for the keys of the model.
SetAttribute(d, el, key, value) ==
    [d EXCEPT !.nodes[el].attrs = (key :> AttrString(value)) @@ d.nodes[el].attrs]

RemoveAttribute(d, el, key) ==
    [d EXCEPT !.nodes[el].attrs =
        [k \in DOMAIN d.nodes[el].attrs \ {key} |-> d.nodes[el].attrs[k]]]

EventKeys == {"@click"}

\* key.startsWith("@"), key.slice(1)
IsEvent(key) == key \in EventKeys

EventName(key) == "click"

\* The listener bookkeeping of render and update: the listener the event map
\* holds under the name is removed, the map entry is rewritten with the new
\* one, the new one is added.
SetListener(d, el, key, value) ==
    LET node == d.nodes[el]
        name == EventName(key)
        oldListeners == IF node.mapped THEN node.emap ELSE NoProps
        kept == IF name \in DOMAIN node.listeners
                THEN (IF name \in DOMAIN oldListeners
                      THEN node.listeners[name] \ {oldListeners[name]}
                      ELSE node.listeners[name])
                ELSE {}
    IN  [d EXCEPT !.nodes[el] =
            [node EXCEPT !.mapped = TRUE,
                         !.emap = (name :> value.v) @@ oldListeners,
                         !.listeners = (name :> (kept \cup {value.v})) @@ node.listeners]]

\* this.eventMap.delete(el)
EventMapDelete(d, el) ==
    Traced([d EXCEPT !.nodes[el].mapped = FALSE, !.nodes[el].emap = NoProps],
           "unmap", el)

\* The keys of the props in the order Object.entries gives them.
PropOrder == <<"data-litez-scope", "id", "title", "class", "@click">>

KeysOf(props) == SelectSeq(PropOrder, LAMBDA k : k \in DOMAIN props)

\* render, lines 813-831: the props of the node onto the new element.
RECURSIVE RenderProps(_, _, _, _)
RenderProps(d, el, props, keys) ==
    IF keys = <<>> THEN d
    ELSE LET key == Head(keys)
             value == props[key]
             e == IF IsEvent(key)
                  THEN (IF value.t = "function" THEN SetListener(d, el, key, value) ELSE d)
                  ELSE SetAttribute(d, el, key, value)
         IN  RenderProps(e, el, props, Tail(keys))

\* render(node, container), lines 780-851: the document after the call and
\* the node returned (0 for null).
RECURSIVE Render(_, _, _)
RECURSIVE RenderChildren(_, _, _)
RenderChildren(d, children, el) ==
    IF children = <<>> THEN d
    ELSE LET child == Head(children)
         IN  RenderChildren(
                 IF child.type \in {"undefined", "null"} THEN d
                 ELSE Render(d, child, el).d,
                 Tail(children), el)

Render(d, node, container) ==
    IF Falsy(node) THEN [d |-> d, ret |-> 0]
    ELSE IF node.type = "string"
    THEN LET e == AddNode(d, TextDom(node.value))
         IN  [d |-> AppendChild(e, container, LastId(e)), ret |-> LastId(e)]
    ELSE LET e == AddNode(d, ElDom(node.tag, node.key, node.flags))
             el == LastId(e)
             withProps == RenderProps(e, el, node.props, KeysOf(node.props))
             withChildren == RenderChildren(withProps, node.children, el)
         IN  [d |-> AppendChild(withChildren, container, el), ret |-> el]

\* comp?.on.<name>?.(...): the hooks of the component of the container, when
\* it has one, each recorded by its name.
Hook(d, name) == IF d.comp THEN [d EXCEPT !.log = Append(d.log, name)] ELSE d

\* if (n._litez_cleanup) n._litez_cleanup(): _litez_cleanup is the
\* unsubscribe of a listener of the state (cleanup its identity, 0 for none),
\* which deletes the listener from the listeners of the state (subs).
Cleanup(d, n) ==
    IF d.nodes[n].cleanup # 0
    THEN Traced([d EXCEPT !.log = Append(d.log, "cleanup"),
                          !.subs = d.subs \ {d.nodes[n].cleanup}],
                "cleanup", n)
    ELSE d

\* n.textContent = text: the data of a text node; of an element, its
\* children replaced by one text node, or by none for the empty string.
SetTextContent(d, n, text) ==
    IF d.nodes[n].kind = "text" THEN [d EXCEPT !.nodes[n].text = text]
    ELSE LET cleared == [d EXCEPT !.nodes = [m \in DOMAIN d.nodes |->
                            IF m = n THEN [d.nodes[m] EXCEPT !.kids = <<>>]
                            ELSE IF d.nodes[m].parent = n
                            THEN [d.nodes[m] EXCEPT !.parent = 0]
                            ELSE d.nodes[m]]]
             e == AddNode(cleared, TextDom(text))
         IN  IF text = <<>> THEN cleared ELSE AppendChild(e, n, LastId(e))

\* props[key], undefined for a key the props do not have.
PropGet(props, key) == IF key \in DOMAIN props THEN props[key] ELSE Undef

\* value || ""
OrEmpty(value) == IF value.t = "string" THEN value ELSE Str("")

IsData(key) == key = "data-litez-scope"

\* The writes of the attribute diff (lines 964-990) in their order: the class,
\* the attributes of the old props the new ones lack, the new props.
ClassOps(newNode, oldNode) ==
    IF /\ FlagCLASS \in newNode.flags \cup oldNode.flags
       /\ PropGet(newNode.props, "class") # PropGet(oldNode.props, "class")
    THEN <<[op |-> "set", key |-> "class",
            value |-> OrEmpty(PropGet(newNode.props, "class"))]>>
    ELSE <<>>

RemoveOps(newNode, oldNode) ==
    LET gone == SelectSeq(KeysOf(oldNode.props),
                    LAMBDA k : k \notin DOMAIN newNode.props /\ ~IsEvent(k))
    IN  [i \in DOMAIN gone |-> [op |-> "remove", key |-> gone[i], value |-> Undef]]

SetOps(newNode, oldNode) ==
    LET keys == SelectSeq(KeysOf(newNode.props),
                    LAMBDA k : \/ IsEvent(k)
                               \/ IsData(k)
                               \/ PropGet(oldNode.props, k) # newNode.props[k])
    IN  [i \in DOMAIN keys |->
            [op |-> IF IsEvent(keys[i]) THEN "listen" ELSE "set",
             key |-> keys[i], value |-> newNode.props[keys[i]]]]

PatchOps(newNode, oldNode) ==
    IF newNode.flags = {} /\ oldNode.flags = {} THEN <<>>
    ELSE ClassOps(newNode, oldNode)
         \o (IF newNode.flags \cap {FlagPROPS, FlagFULLPROPS} # {}
             THEN RemoveOps(newNode, oldNode) \o SetOps(newNode, oldNode)
             ELSE <<>>)

\* The writes applied to the node; a text node has no setAttribute, no
\* removeAttribute and no dataset, and the write throws a TypeError.  writes
\* keeps the calls made, in their order.
Written(d, child, o) ==
    [d EXCEPT !.writes = Append(d.writes, [op |-> o.op, node |-> child, key |-> o.key])]

RECURSIVE ApplyOps(_, _, _)
ApplyOps(d, child, ops) ==
    IF ops = <<>> THEN [d |-> d, threw |-> FALSE]
    ELSE LET o == Head(ops)
         IN  IF o.op = "listen"
             THEN ApplyOps(Written(SetListener(d, child, o.key, o.value), child, o),
                           child, Tail(ops))
             ELSE IF d.nodes[child].kind = "text" THEN [d |-> d, threw |-> TRUE]
             ELSE IF o.op = "remove"
             THEN ApplyOps(Written(RemoveAttribute(d, child, o.key), child, o),
                           child, Tail(ops))
             ELSE ApplyOps(Written(SetAttribute(d, child, o.key, o.value), child, o),
                           child, Tail(ops))

\* child?.key !== undefined: a VNode has a key, null included; a string, null
\* and undefined have none.
HasKey(child) == child.type = "vnode"

\* keyMap: for each key of the old children, the index (from 0) of the last
\* old child that has it.
KeyMapOf(oldChildren) ==
    LET keys == {oldChildren[n].key : n \in {m \in DOMAIN oldChildren : HasKey(oldChildren[m])}}
    IN  [k \in keys |->
            (CHOOSE n \in DOMAIN oldChildren :
                /\ HasKey(oldChildren[n]) /\ oldChildren[n].key = k
                /\ \A m \in DOMAIN oldChildren :
                      (HasKey(oldChildren[m]) /\ oldChildren[m].key = k) => m <= n) - 1]

\* The branch an iteration of the loop takes goes on with i + 1 (it handles
\* the new child at i), with j + 1 (it handles the old child at j) or with
\* both; visits keeps, for each iteration, the indexes it handles, -1 for none.
Visited(d, newChild, oldChild, i, j) ==
    [d EXCEPT !.visits = Append(d.visits,
        IF Falsy(newChild) THEN [new |-> -1, old |-> j]
        ELSE IF Falsy(oldChild) THEN [new |-> i, old |-> -1]
        ELSE [new |-> i, old |-> j])]

\* update(parent, newNode, oldNode, index), lines 923-1036.  UpdateBody is the
\* try block: the document after it and whether it threw; Update adds the
\* catch.  ChildrenLoop is the while loop of lines 999-1030 from (i, j) on.
RECURSIVE Update(_, _, _, _, _)
RECURSIVE UpdateBody(_, _, _, _, _)
RECURSIVE ChildrenLoop(_, _, _, _, _, _, _)
ChildrenLoop(doc, parent, newChildren, oldChildren, keyMap, i, j) ==
    IF ~(i < Len(newChildren) \/ j < Len(oldChildren)) THEN [d |-> doc, threw |-> FALSE]
    ELSE
    LET newChild == At(newChildren, i)
        oldChild == At(oldChildren, j)
        currentChild == ChildAt(doc, parent, j)
        d == Visited(doc, newChild, oldChild, i, j)
    IN  IF Falsy(newChild)
        THEN LET d1 == Hook(d, "beforeDestroy")
             IN  IF currentChild = 0 THEN [d |-> d1, threw |-> TRUE]
                 ELSE ChildrenLoop(
                          Hook(EventMapDelete(
                                   RemoveChild(Cleanup(d1, currentChild), parent, currentChild),
                                   currentChild), "destroyed"),
                          parent, newChildren, oldChildren, keyMap, i, j + 1)
        ELSE IF Falsy(oldChild)
        THEN ChildrenLoop(Render(d, newChild, parent).d,
                          parent, newChildren, oldChildren, keyMap, i + 1, j)
        ELSE IF newChild.type = "vnode" /\ newChild.key # "null"
                /\ newChild.key \in DOMAIN keyMap
        THEN LET oldIdx == keyMap[newChild.key]
                 moving == ChildAt(d, parent, oldIdx)
             IN  IF oldIdx # j /\ moving = 0 THEN [d |-> d, threw |-> TRUE]
                 ELSE ChildrenLoop(
                          Update(IF oldIdx # j
                                 THEN InsertBefore(d, parent, moving, currentChild)
                                 ELSE d,
                                 parent, newChild, At(oldChildren, oldIdx), j),
                          parent, newChildren, oldChildren,
                          [k \in DOMAIN keyMap \ {newChild.key} |-> keyMap[k]],
                          i + 1, j + 1)
        ELSE LET tmp == AddNode(d, ElDom("div", "null", {}))
                 r == Render(tmp, newChild, LastId(tmp))
             IN  IF currentChild = 0 THEN [d |-> r.d, threw |-> TRUE]
                 ELSE ChildrenLoop(
                          EventMapDelete(
                              Cleanup(ReplaceChild(r.d, parent, r.ret, currentChild),
                                      currentChild),
                              currentChild),
                          parent, newChildren, oldChildren, keyMap, i + 1, j + 1)

UpdateBody(d, parent, newNode, oldNode, index) ==
    LET child == ChildAt(d, parent, index)
    IN  IF child = 0 THEN [d |-> d, threw |-> FALSE]
        ELSE IF Falsy(newNode)
        THEN [d |-> Hook(EventMapDelete(
                             RemoveChild(Cleanup(Hook(d, "beforeDestroy"), child),
                                         parent, child),
                             child), "destroyed"),
              threw |-> FALSE]
        ELSE IF newNode.type = "string" /\ oldNode.type = "string"
        THEN [d |-> IF newNode.value # oldNode.value
                    THEN SetTextContent(d, child, Trim(newNode.value))
                    ELSE d,
              threw |-> FALSE]
        ELSE IF newNode.type # "vnode" \/ oldNode.type # "vnode"
                \/ newNode.tag # oldNode.tag
        THEN LET tmp == AddNode(Cleanup(Hook(d, "beforeDestroy"), child),
                                ElDom("div", "null", {}))
                 r == Render(tmp, newNode, LastId(tmp))
             IN  [d |-> Hook(Hook(EventMapDelete(
                                      ReplaceChild(r.d, parent, r.ret, child), child),
                                  "destroyed"), "mount"),
                  threw |-> FALSE]
        ELSE LET patched == ApplyOps(Hook(d, "beforeUpdate"), child,
                                     PatchOps(newNode, oldNode))
                 looped == ChildrenLoop(patched.d, parent, newNode.children,
                                        oldNode.children, KeyMapOf(oldNode.children), 0, 0)
             IN  IF patched.threw THEN patched
                 ELSE IF looped.threw THEN looped
                 ELSE [d |-> Hook(looped.d, "updated"), threw |-> FALSE]

\* catch (e): the error handler, or console.error.
Update(d, parent, newNode, oldNode, index) ==
    LET r == UpdateBody(d, parent, newNode, oldNode, index)
    IN  IF r.threw THEN [r.d EXCEPT !.log = Append(r.d.log, "error")] ELSE r.d

\* The VNodes of the model, as h(tag, props, children, key) makes them.
Leaf(tag, key, children) == [H(0, tag, NoProps, children) EXCEPT !.key = key]

DomChildren ==
    {StringNode(<<"a">>), StringNode(<<"b">>),
     Leaf("p", "null", <<StringNode(<<"a">>)>>),
     Leaf("p", "k1", <<>>), Leaf("span", "k2", <<>>)}

DomKeyed == {StringNode(<<"a">>), Leaf("p", "k1", <<>>), Leaf("span", "k2", <<>>)}

DomChildLists ==
    {<<>>} \cup {<<x>> : x \in DomChildren}
           \cup {<<x, y>> : x \in DomKeyed, y \in DomKeyed}

DomProps ==
    {[props |-> NoProps, flags |-> {}],
     [props |-> "title" :> Str("1"), flags |-> {}],
     [props |-> "title" :> Str("0"), flags |-> {FlagPROPS}],
     [props |-> ("class" :> Str("1")) @@ ("@click" :> Fn("h")),
      flags |-> {FlagCLASS, FlagFULLPROPS}]}

DomRoots ==
    {[H(0, "div", p.props, kids) EXCEPT !.flags = p.flags] :
        p \in DomProps, kids \in DomChildLists}

DomVNodes ==
    DomRoots \cup {StringNode(<<"a">>), StringNode(<<" ", "b">>), StringNode(<<>>),
                   NullNode, Leaf("span", "null", <<>>)}

MaxUpdates == 2

DomIdle == [phase |-> "none"]

\* The document with the container alone: node 1.
EmptyDocument(comp) ==
    [phase |-> "mounted", nodes |-> <<ElDom("div", "null", {})>>, log |-> <<>>,
     trace |-> <<>>, writes |-> <<>>, visits |-> <<>>, subs |-> {}, owner |-> <<>>,
     comp |-> comp, old |-> NullNode, nupdates |-> 0]

Container == 1

\* render(old, container) into the empty container, as mount does (line
\* 1585), the container that of a component or not; then, or not, a second
\* node rendered after it.
Mount(vnodes) ==
    /\ dom.phase = "none"
    /\ \E old \in vnodes, comp \in BOOLEAN, sibling \in BOOLEAN :
          LET first == Render(EmptyDocument(comp), old, Container).d
          IN  dom' = [(IF sibling
                       THEN Render(first, Leaf("hr", "null", <<>>), Container).d
                       ELSE first)
                          EXCEPT !.old = old]
    /\ UNCHANGED <<ev, rs, tpl, lz>>

DomMount == Mount(DomVNodes)

\* update(container, newNode, old, 0); the new tree is the old one of the
\* next update (lines 1590-1591).
UpdateTo(vnodes) ==
    /\ dom.phase = "mounted"
    /\ dom.nupdates < MaxUpdates
    /\ \E newNode \in vnodes :
          dom' = [Update([dom EXCEPT !.log = <<>>, !.trace = <<>>, !.writes = <<>>,
                          !.visits = <<>>],
                         Container, newNode, dom.old, 0)
                     EXCEPT !.old = newNode, !.nupdates = dom.nupdates + 1]
    /\ UNCHANGED <<ev, rs, tpl, lz>>

DomUpdate == UpdateTo(DomVNodes)

\* The subtree of a node: tag, attributes, text and children in their order.
RECURSIVE Subtree(_, _)
Subtree(d, n) ==
    IF n = 0 THEN [kind |-> "none"]
    ELSE [kind |-> d.nodes[n].kind, tag |-> d.nodes[n].tag,
          text |-> d.nodes[n].text, attrs |-> d.nodes[n].attrs,
          kids |-> [i \in DOMAIN d.nodes[n].kids |-> Subtree(d, d.nodes[n].kids[i])]]

\* What render(node) puts into an empty container.
Rendered(node) ==
    LET r == Render(EmptyDocument(FALSE), node, Container)
    IN  Subtree(r.d, r.ret)

\* C1: an update of the node at index 0, a node the rendering of the old tree
\* produced, to a new tree that renders to a node leaves at index 0 a subtree
\* equal in tag, attributes, text and order of children to the rendering of the
\* new tree into an empty container.
C1_UpdateEqualsRender ==
    [][(/\ dom.phase = "mounted"
        /\ dom'.phase = "mounted"
        /\ dom'.nupdates = dom.nupdates + 1
        /\ ~Falsy(dom.old)
        /\ ~Falsy(dom'.old)
        /\ Subtree(dom, ChildAt(dom, Container, 0)) = Rendered(dom.old))
       => Subtree(dom', ChildAt(dom', Container, 0)) = Rendered(dom'.old)]_vars

\* The step is an update of the root element in place: the old and the new
\* tree are elements of the same tag, props and flags, and the node at index
\* 0 is the rendering of the old tree.
PatchesRoot ==
    /\ dom.phase = "mounted"
    /\ dom'.phase = "mounted"
    /\ dom'.nupdates = dom.nupdates + 1
    /\ dom.old.type = "vnode"
    /\ dom'.old.type = "vnode"
    /\ dom'.old.tag = dom.old.tag
    /\ dom'.old.props = dom.old.props
    /\ dom'.old.flags = dom.old.flags
    /\ Subtree(dom, ChildAt(dom, Container, 0)) = Rendered(dom.old)

\* Every child is a VNode with a key, no two with the same.
DistinctKeys(children) ==
    /\ \A i \in DOMAIN children : children[i].type = "vnode" /\ children[i].key # "null"
    /\ \A i, k \in DOMAIN children : children[i].key = children[k].key => i = k

\* The place (from 1) of the child of that key among the children.
PlaceOf(children, key) == CHOOSE i \in DOMAIN children : children[i].key = key

\* C14: when the old children have distinct keys and the new children are a
\* permutation of them, the update leaves the DOM children of the element in
\* the order of the new list, each the DOM node its key had before, creates no
\* node and fires no teardown or mount hook.
C14_KeyedPermutationMovesNodes ==
    [][(/\ PatchesRoot
        /\ DistinctKeys(dom.old.children)
        /\ Len(dom'.old.children) = Len(dom.old.children)
        /\ \A i \in DOMAIN dom.old.children :
              \E k \in DOMAIN dom'.old.children : dom'.old.children[k] = dom.old.children[i])
       => LET root == ChildAt(dom, Container, 0)
          IN  /\ ChildAt(dom', Container, 0) = root
              /\ Len(dom'.nodes) = Len(dom.nodes)
              /\ dom'.nodes[root].kids =
                    [i \in DOMAIN dom'.old.children |->
                        dom.nodes[root].kids[PlaceOf(dom.old.children,
                                                     dom'.old.children[i].key)]]
              /\ \A e \in DOMAIN dom'.log :
                    dom'.log[e] \notin {"beforeDestroy", "destroyed", "mount", "error"}]_vars

\* C15: when the old children are n texts and the new children are the same
\* texts and one more, the update adds one DOM node, the text appended, as
\* child n of the element, and the children 0..n-1 are the nodes they were,
\* with the text they had.
C15_AppendMountsOneNode ==
    [][(/\ PatchesRoot
        /\ \A i \in DOMAIN dom'.old.children :
              dom'.old.children[i].type = "string" /\ dom'.old.children[i].value # <<>>
        /\ Len(dom'.old.children) = Len(dom.old.children) + 1
        /\ SubSeq(dom'.old.children, 1, Len(dom.old.children)) = dom.old.children)
       => LET root == ChildAt(dom, Container, 0)
              n == Len(dom.old.children)
          IN  /\ ChildAt(dom', Container, 0) = root
              /\ Len(dom'.nodes[root].kids) = n + 1
              /\ SubSeq(dom'.nodes[root].kids, 1, n) = dom.nodes[root].kids
              /\ \A i \in 1..n :
                    Subtree(dom', dom.nodes[root].kids[i])
                       = Subtree(dom, dom.nodes[root].kids[i])
              /\ dom'.nodes[root].kids[n + 1] \notin DOMAIN dom.nodes
              /\ Subtree(dom', dom'.nodes[root].kids[n + 1])
                    = Rendered(dom'.old.children[n + 1])]_vars

\* The new child has no key found in the lookup of the old children.
Unmatched(newChild, oldChildren) ==
    ~(newChild.type = "vnode" /\ newChild.key # "null"
      /\ newChild.key \in DOMAIN KeyMapOf(oldChildren))

\* C16: when at every position the old and the new child are present and the
\* new child has no key found among the old children, the update puts at each
\* position of the element a node rendered anew from the new child, and the
\* node that was there is no longer in the document, tag and text equal or
\* not.
C16_UnkeyedChildIsReplaced ==
    [][(/\ PatchesRoot
        /\ Len(dom'.old.children) = Len(dom.old.children)
        /\ Len(dom.old.children) > 0
        /\ \A i \in DOMAIN dom'.old.children :
              /\ ~Falsy(dom'.old.children[i])
              /\ ~Falsy(dom.old.children[i])
              /\ Unmatched(dom'.old.children[i], dom.old.children))
       => LET root == ChildAt(dom, Container, 0)
          IN  /\ ChildAt(dom', Container, 0) = root
              /\ Len(dom'.nodes[root].kids) = Len(dom'.old.children)
              /\ \A i \in DOMAIN dom'.old.children :
                    /\ dom'.nodes[root].kids[i] \notin DOMAIN dom.nodes
                    /\ Subtree(dom', dom'.nodes[root].kids[i])
                          = Rendered(dom'.old.children[i])
                    /\ dom'.nodes[dom.nodes[root].kids[i]].parent = 0]_vars

\* The step is an update of an element by an element of the same tag, the
\* node at index 0 the rendering of the old tree.
SameTagUpdate ==
    /\ dom.phase = "mounted"
    /\ dom'.phase = "mounted"
    /\ dom'.nupdates = dom.nupdates + 1
    /\ dom.old.type = "vnode"
    /\ dom'.old.type = "vnode"
    /\ dom'.old.tag = dom.old.tag
    /\ Subtree(dom, ChildAt(dom, Container, 0)) = Rendered(dom.old)

\* C21: when the old and the new VNode have the same tag and both have no
\* flag, the update leaves the element at its place with the attributes, the
\* class, the listeners and the event map record it had, writes none of them,
\* and leaves as its children the rendering of the new children.
C21_ZeroFlagsSkipAttributesOnly ==
    [][(/\ SameTagUpdate
        /\ dom.old.flags = {}
        /\ dom'.old.flags = {})
       => LET root == ChildAt(dom, Container, 0)
          IN  /\ ChildAt(dom', Container, 0) = root
              /\ dom'.nodes[root].attrs = dom.nodes[root].attrs
              /\ dom'.nodes[root].listeners = dom.nodes[root].listeners
              /\ dom'.nodes[root].emap = dom.nodes[root].emap
              /\ dom'.writes = <<>>
              /\ Subtree(dom', root).kids = Rendered(dom'.old).kids]_vars

\* C22: in an update of an element without children by one of the same tag,
\* an attribute of the old props that the new props lack is removed from the
\* element exactly when the new VNode has FULL_PROPS, and an attribute of
\* equal value in both props is not written.
C22_RemovalNeedsFullProps ==
    [][(/\ SameTagUpdate
        /\ dom.old.children = <<>>
        /\ dom'.old.children = <<>>)
       => LET root == ChildAt(dom, Container, 0)
          IN  /\ ChildAt(dom', Container, 0) = root
              /\ \A key \in DOMAIN dom.old.props \ DOMAIN dom'.old.props :
                    ~IsEvent(key) =>
                       (key \notin DOMAIN dom'.nodes[root].attrs
                           <=> FlagFULLPROPS \in dom'.old.flags)
              /\ \A key \in DOMAIN dom.old.props \cap DOMAIN dom'.old.props :
                    (~IsEvent(key) /\ dom.old.props[key] = dom'.old.props[key]) =>
                       \A w \in DOMAIN dom'.writes :
                          ~(dom'.writes[w].node = root /\ dom'.writes[w].key = key)]_vars

\* The step is an update, of an element by an element of the same tag, that
\* caught an exception in the loop over the children.
LoopThrew ==
    /\ dom.phase = "mounted"
    /\ dom'.phase = "mounted"
    /\ dom'.nupdates = dom.nupdates + 1
    /\ dom.old.type = "vnode"
    /\ dom'.old.type = "vnode"
    /\ dom'.old.tag = dom.old.tag
    /\ dom'.visits # <<>>
    /\ \E n \in DOMAIN dom'.log : dom'.log[n] = "error"

\* C28: when an update catches an exception raised while its loop handles one
\* child, the loop has handled every new child and every old child of the pass.
C28_SiblingsStillReconciled ==
    [][LoopThrew =>
          /\ \A i \in DOMAIN dom'.old.children :
                \E v \in DOMAIN dom'.visits : dom'.visits[v].new = i - 1
          /\ \A j \in DOMAIN dom.old.children :
                \E v \in DOMAIN dom'.visits : dom'.visits[v].old = j - 1]_vars

\* C29: when an update catches an exception, the container's subtree is the
\* one it had before the call, and no hook has fired.
C29_FailedUpdateLeavesDom ==
    [][(/\ dom.phase = "mounted"
        /\ dom'.phase = "mounted"
        /\ dom'.nupdates = dom.nupdates + 1
        /\ \E n \in DOMAIN dom'.log : dom'.log[n] = "error")
       => /\ Subtree(dom', Container) = Subtree(dom, Container)
          /\ \A n \in DOMAIN dom'.log : dom'.log[n] = "error"]_vars

\* C32: an update of an element by an element of the same tag leaves the
\* child list of the parent as it was: the element at its index, the other
\* children of the parent at theirs, no node added.
C32_ParentChildListUnchanged ==
    [][SameTagUpdate => dom'.nodes[Container].kids = dom.nodes[Container].kids]_vars

\* C20: an update with a new tree that renders to a node, when the container
\* has no child at the index, leaves the rendering of the new tree as the
\* child of the container at the index.
C20_UpdateMountsWhenNoChild ==
    [][(/\ dom.phase = "mounted"
        /\ dom'.phase = "mounted"
        /\ dom'.nupdates = dom.nupdates + 1
        /\ ChildAt(dom, Container, 0) = 0
        /\ ~Falsy(dom'.old))
       => (/\ ChildAt(dom', Container, 0) # 0
           /\ Subtree(dom', ChildAt(dom', Container, 0)) = Rendered(dom'.old))]_vars

(***************************************************************************)
(* Directives on mounted nodes and their teardown in update.               *)
(***************************************************************************)
\* The trees of the teardown model: an element with an element or a text
\* below it, or with a click handler, and the values that replace it.
TdRoots ==
    {Leaf("div", "null", <<Leaf("p", "null", <<>>)>>),
     Leaf("div", "null", <<StringNode(<<"a">>)>>),
     Leaf("div", "null", <<StringNode(<<"b">>)>>),
     [H(0, "div", "@click" :> Fn("h"), <<>>) EXCEPT !.flags = {FlagFULLPROPS}],
     Leaf("span", "null", <<>>)}

TdVNodes == TdRoots \cup {NullNode, StringNode(<<"a">>)}

MaxDirectives == 2

\* The node is n or below n.
RECURSIVE IsWithin(_, _, _)
IsWithin(d, m, n) ==
    IF m = n THEN TRUE
    ELSE IF m = 0 \/ d.nodes[m].parent = 0 THEN FALSE
    ELSE IsWithin(d, d.nodes[m].parent, n)

\* The handler of z-show (lines 1625-1636) called with the element, an
\* expression and the state, shown the truth of the expression in the state:
\* the display of the element set, a listener of the state registered, and
\* its unsubscribe stored as the _litez_cleanup of the element.  (z-model,
\* show-when, set-text and set-html end in the same two statements.)  owner
\* is, for each listener in the order of registration, the element of the
\* handler that registered it.
DirectiveHandler(d, el, shown) ==
    LET id == Len(d.owner) + 1
        styled == IF shown THEN d ELSE SetAttribute(d, el, "style", Str("display: none;"))
    IN  [styled EXCEPT !.subs = styled.subs \cup {id},
                       !.owner = Append(styled.owner, el),
                       !.nodes = [m \in DOMAIN styled.nodes |->
                                     IF m = el THEN [styled.nodes[m] EXCEPT !.cleanup = id]
                                     ELSE styled.nodes[m]]]

TdMount == Mount(TdRoots)

\* LiteZ.directives["z-show"](el, value, state) for an element of the
\* container's tree.
TdDirective ==
    /\ dom.phase = "mounted"
    /\ Len(dom.owner) < MaxDirectives
    /\ \E el \in DOMAIN dom.nodes, shown \in BOOLEAN :
          /\ el # Container
          /\ dom.nodes[el].kind = "el"
          /\ IsWithin(dom, el, Container)
          /\ dom' = DirectiveHandler(dom, el, shown)
    /\ UNCHANGED <<ev, rs, tpl, lz>>

TdUpdate == UpdateTo(TdVNodes)

\* The place in the trace of the call op on the node n, 0 when there is none.
TracedAt(op, n) ==
    IF \E k \in DOMAIN dom.trace : dom.trace[k] = [op |-> op, node |-> n]
    THEN CHOOSE k \in DOMAIN dom.trace : dom.trace[k] = [op |-> op, node |-> n]
    ELSE 0

\* The nodes the last update removed or replaced.
Detached == {dom.trace[k].node : k \in {i \in DOMAIN dom.trace : dom.trace[i].op = "detach"}}

\* C19: for every node the last update removed or replaced, the cleanup
\* callback of the node, when it has one, ran before the node left its
\* parent, and its listener record was deleted after.
C19_CleanupBeforeDetach ==
    dom.phase = "mounted" =>
        \A n \in Detached :
            /\ dom.nodes[n].cleanup # 0 =>
                  (TracedAt("cleanup", n) # 0
                   /\ TracedAt("cleanup", n) < TracedAt("detach", n))
            /\ TracedAt("unmap", n) > TracedAt("detach", n)

\* C18: for every node the last update removed or replaced, no listener a
\* directive registered on the node or on a node below it is still among the
\* listeners of the state, and the event map has no record for the node.
C18_NoListenerLeftAfterRemoval ==
    dom.phase = "mounted" =>
        \A n \in Detached :
            /\ \A id \in dom.subs : ~IsWithin(dom, dom.owner[id], n)
            /\ ~dom.nodes[n].mapped

(***************************************************************************)
(* A template with z-if, mounted, and reconciled after each toggle of its  *)
(* condition: state.set, render() and update as the listener of            *)
(* createApp.mount runs them (lines 1588-1593).                            *)
(***************************************************************************)
IfTemplates ==
    {ElementNode("div", at, <<ElementNode("p", if, <<TextNode(<<t>>)>>)>> \o rest) :
        at \in {<<>>, <<Attr(":title", KeyA)>>},
        if \in IfAttrs,
        t \in {"hi", "{{a}}"},
        rest \in {<<>>, <<TextNode(<<"{{a}}">>)>>}}

IfState(a, show) == Obj(KeyA :> Str(a) @@ KeyShow :> Bool(show))

MaxToggles == 4

\* compileTemplate, the first render() and render(node, container).
IfMount ==
    /\ tpl.phase = "none"
    /\ dom.phase = "none"
    /\ \E first \in IfTemplates, a \in {"0", "1"}, show \in BOOLEAN, comp \in BOOLEAN :
          \E t \in {RenderCall(CompileTemplate(first, IfState(a, show)))} :
              /\ tpl' = t
              /\ dom' = [Render(EmptyDocument(comp), t.last.val, Container).d
                            EXCEPT !.old = t.last.val]
    /\ UNCHANGED <<ev, rs, lz>>

\* state.set("show", !show), then render() and update(container, newNode,
\* old, 0).
IfToggle ==
    /\ tpl.phase = "ready"
    /\ dom.phase = "mounted"
    /\ dom.nupdates < MaxToggles
    /\ \E t \in {RenderCall([tpl EXCEPT
                              !.state = IfState(GetProp(tpl.state, KeyA).v,
                                                ~Truthy(GetProp(tpl.state, KeyShow))),
                              !.dirty = TRUE])} :
          /\ tpl' = t
          /\ dom' = [Update([dom EXCEPT !.log = <<>>, !.trace = <<>>, !.writes = <<>>,
                          !.visits = <<>>],
                            Container, t.last.val, dom.old, 0)
                        EXCEPT !.old = t.last.val, !.nupdates = dom.nupdates + 1]
    /\ UNCHANGED <<ev, rs, lz>>

\* How many times the hook is in the log of the last update.
Fired(d, name) == Cardinality({k \in DOMAIN d.log : d.log[k] = name})

\* C17: a reconcile after the condition of a z-if went from true to false
\* fires each teardown hook once and no mount hook; a reconcile after it went
\* from false to true fires the mount hook once and no teardown hook.
C17_ToggleFiresHooksOnce ==
    [][(/\ tpl.phase = "ready"
        /\ dom.phase = "mounted"
        /\ dom'.nupdates = dom.nupdates + 1
        /\ dom.comp)
       => IF Truthy(GetProp(tpl.state, KeyShow))
          THEN /\ Fired(dom', "beforeDestroy") = 1
               /\ Fired(dom', "destroyed") = 1
               /\ Fired(dom', "mount") = 0
          ELSE /\ Fired(dom', "mount") = 1
               /\ Fired(dom', "beforeDestroy") = 0
               /\ Fired(dom', "destroyed") = 0]_vars

(***************************************************************************)
(* scheduleUpdate and the animation-frame flush.  updateQueue is a Map: a  *)
(* sequence of entries in insertion order, one per key; set on a key the   *)
(* Map holds replaces the value at its place, forEach visits the entries   *)
(* in order, those added during the visit included.  frames counts the     *)
(* callbacks given to requestAnimationFrame and not yet called.  asked and *)
(* applied keep the scheduleUpdate calls and the update calls of the       *)
(* current cycle, a cycle starting with the call that sets updateScheduled.*)
(***************************************************************************)
MaxRequests == 3
MaxFlushes == 2

\* The elements update requests are made for: two elements of one node name
\* without _key, and a keyed element (render sets el._key = node.key).
SchParents ==
    {[id |-> 1, nodeName |-> "DIV", key |-> ""],
     [id |-> 2, nodeName |-> "DIV", key |-> ""],
     [id |-> 3, nodeName |-> "LI", key |-> "k"]}

SchIndexes == {0, 1}

SchNodes == {"a", "b"}

\* `${parent._key || parent.nodeName}-${index}`
QueueKey(parent, index) ==
    <<IF parent.key # "" THEN parent.key ELSE parent.nodeName, "-", Digits[index + 1]>>

\* Map.prototype.set
MapSet(queue, key, value) ==
    IF \E p \in DOMAIN queue : queue[p].key = key
    THEN [p \in DOMAIN queue |->
            IF queue[p].key = key THEN [key |-> key, value |-> value] ELSE queue[p]]
    ELSE Append(queue, [key |-> key, value |-> value])

\* Map.prototype.clear
MapKept(queue) == queue

MapClear(queue) == <<>>

LzNew ==
    [queue |-> <<>>, updateScheduled |-> FALSE, frames |-> 0, running |-> FALSE,
     pos |-> 0, asked |-> <<>>, applied |-> <<>>, nflush |-> 0,
     errorHandler |-> "null", handled |-> <<>>, logged |-> <<>>, caught |-> <<>>,
     store |-> [phase |-> "none"]]

\* scheduleUpdate(parent, newNode, oldNode, index), called from outside or,
\* while a flush runs, from a hook of the update in progress.  seq numbers
\* the requests of a cycle: the object the call puts into the Map.
ScheduleUpdate ==
    /\ Len(lz.asked) < MaxRequests
    /\ lz.nflush < MaxFlushes
    /\ \E parent \in SchParents, index \in SchIndexes, newNode \in SchNodes :
          LET req == [parent |-> parent.id, newNode |-> newNode, index |-> index,
                      seq |-> IF lz.updateScheduled THEN Len(lz.asked) + 1 ELSE 1]
              call == [req |-> req, during |-> lz.running,
                       key |-> QueueKey(parent, index)]
              queue == MapSet(lz.queue, QueueKey(parent, index), req)
          IN  lz' = IF lz.updateScheduled
                    THEN [lz EXCEPT !.queue = queue, !.asked = Append(lz.asked, call)]
                    ELSE [lz EXCEPT !.queue = queue, !.asked = <<call>>,
                                    !.applied = <<>>,
                                    !.updateScheduled = TRUE,
                                    !.frames = lz.frames + 1]
    /\ UNCHANGED <<ev, rs, tpl, dom>>

\* The browser calls the frame callback: forEach starts.
FlushStart ==
    /\ lz.frames > 0
    /\ ~lz.running
    /\ lz' = [lz EXCEPT !.frames = lz.frames - 1, !.running = TRUE, !.pos = 1]
    /\ UNCHANGED <<ev, rs, tpl, dom>>

\* One entry of forEach: this.update(parent, newNode, oldNode, index).
FlushStep ==
    /\ lz.running
    /\ lz.pos <= Len(lz.queue)
    /\ lz' = [lz EXCEPT !.applied = Append(lz.applied, lz.queue[lz.pos].value),
                        !.pos = lz.pos + 1]
    /\ UNCHANGED <<ev, rs, tpl, dom>>

\* forEach is through: updateQueue.clear(), updateScheduled = false.
FlushEnd ==
    /\ lz.running
    /\ lz.pos > Len(lz.queue)
    /\ lz' = [lz EXCEPT !.queue = MapClear(lz.queue), !.updateScheduled = FALSE,
                        !.running = FALSE, !.pos = 0, !.nflush = lz.nflush + 1]
    /\ UNCHANGED <<ev, rs, tpl, dom>>

\* C23: at most one frame callback is pending; updateScheduled is true
\* exactly while a callback is pending or running; with no callback pending
\* or running the queue is empty.
C23_OneFlushPending ==
    /\ lz.frames <= 1
    /\ lz.updateScheduled <=> (lz.frames = 1 \/ lz.running)
    /\ (lz.frames = 0 /\ ~lz.running) => lz.queue = <<>>

\* C23 witness: a flush has finished during which a request was scheduled.
C23_Witness ==
    /\ lz.nflush > 0
    /\ ~lz.updateScheduled
    /\ \E a \in DOMAIN lz.asked : lz.asked[a].during

\* The requests of the cycle made before the flush started.
AskedBefore == {a \in DOMAIN lz.asked : ~lz.asked[a].during}

SameTarget(r, q) == r.parent = q.parent /\ r.index = q.index

\* C24: when a flush has finished, each target (parent, index) requested
\* before it has exactly one update call, and, no request having come for it
\* during the flush, with the new node of the last request for the target.
C24_DistinctTargetsAllApplied ==
    (lz.nflush > 0 /\ ~lz.updateScheduled) =>
       \A a \in AskedBefore :
          LET r == lz.asked[a].req
              calls == {c \in DOMAIN lz.applied : SameTarget(lz.applied[c], r)}
              last == CHOOSE b \in AskedBefore :
                         /\ SameTarget(lz.asked[b].req, r)
                         /\ \A e \in AskedBefore :
                               SameTarget(lz.asked[e].req, r) => e <= b
          IN  /\ Cardinality(calls) = 1
              /\ (\A e \in DOMAIN lz.asked : SameTarget(lz.asked[e].req, r) => ~lz.asked[e].during)
                    => \A c \in calls : lz.applied[c] = lz.asked[last].req

\* The requests of the cycle made while the frame callback was running and
\* not replaced by a later request under the same queue key.
AskedDuring ==
    {a \in DOMAIN lz.asked :
        /\ lz.asked[a].during
        /\ \A b \in DOMAIN lz.asked : lz.asked[b].key = lz.asked[a].key => b <= a}

\* C37: a request made while the frame callback is running, none having
\* replaced it, is in the queue until an update call has been made with it.
C37_FlushRequestsApplied ==
    \A a \in AskedDuring :
       \/ \E c \in DOMAIN lz.applied : lz.applied[c] = lz.asked[a].req
       \/ \E q \in DOMAIN lz.queue : lz.queue[q].value = lz.asked[a].req

(***************************************************************************)
(* The router's showRoute on one container.  The component definition's    *)
(* createInstance returns a new instance (as the definitions component()    *)
(* makes do) or the instance it returned before.  old is the dom property   *)
(* of the instance; prev keeps what its template returned on the previous   *)
(* showRoute and arg the oldNode argument of the last update call.          *)
(***************************************************************************)
MaxRoutes == 3

\* What the instance's template returns.
InstVNodes ==
    {Leaf("div", "null", <<>>), Leaf("div", "null", <<StringNode(<<"a">>)>>),
     Leaf("p", "null", <<>>), StringNode(<<"a">>), NullNode}

\* A DOM node as the value of a property.
DomNode(n) == [type |-> "domnode", id |-> n]

\* The return value of render: the node made, or null.
RenderResult(ret) == IF ret = 0 THEN NullNode ELSE DomNode(ret)

NoArg == [type |-> "none"]

ShowRoute ==
    /\ IF dom.phase = "none" THEN TRUE ELSE dom.nroutes < MaxRoutes
    /\ \E node \in InstVNodes, reused \in BOOLEAN :
          LET base == IF dom.phase = "none"
                      THEN EmptyDocument(TRUE)
                              @@ [prev |-> NullNode, arg |-> NoArg, nroutes |-> 0]
                      ELSE [dom EXCEPT !.log = <<>>, !.trace = <<>>, !.writes = <<>>,
                          !.visits = <<>>]
              compDom == IF reused THEN base.old ELSE NullNode
          IN  IF Falsy(compDom)
              THEN LET r == Render(Hook(base, "beforeMount"), node, Container)
                   IN  dom' = [Hook(r.d, "mount")
                                  EXCEPT !.old = RenderResult(r.ret), !.prev = node,
                                         !.arg = NoArg,
                                         !.nroutes = base.nroutes + 1]
              ELSE dom' = [Hook(Hook(Update(Hook(base, "beforeUpdate"), Container,
                                            node, compDom, 0),
                                     "update"), "updated")
                              EXCEPT !.old = node, !.prev = node, !.arg = compDom,
                                     !.nupdates = base.nupdates + 1,
                                     !.nroutes = base.nroutes + 1]
    /\ UNCHANGED <<ev, rs, tpl, lz>>

\* C25: the oldNode argument of an update made for an instance is the tree
\* the instance's template returned on the previous showRoute, never a DOM
\* node.
C25_OldNodeIsPreviousTree ==
    [][(/\ dom.phase = "mounted"
        /\ dom'.nupdates = dom.nupdates + 1)
       => /\ dom'.arg = dom.prev
          /\ dom'.arg.type # "domnode"]_vars

\* C26: no call of the render() compileTemplate returned throws to its
\* caller.
C26_NothingThrows == tpl.phase = "ready" => ~tpl.last.threw

(***************************************************************************)
(* The catch blocks.  errorHandler is the property setErrorHandler writes;  *)
(* handled keeps the calls of the handler and logged the calls of           *)
(* console.error and console.warn the catch blocks make; caught keeps, for  *)
(* each exception a catch block received, the function, the exception and   *)
(* the handler set at that time.                                            *)
(***************************************************************************)
MaxFailures == 2

ErrorHandlers == {"null", "h1", "h2"}

Exceptions == {"TypeError", "Error"}

\* The functions with a catch block, and the lines of the block.
CatchBlocks ==
    {"evaluate", "state", "state.set", "compileTemplate", "render", "update",
     "scheduleUpdate"}

\* The catch blocks that test this.errorHandler; that of render (lines
\* 843-850) calls console.error and nothing else.
TestsHandler(fn) == fn # "render"

\* catch (e) { if (this.errorHandler) this.errorHandler(e); else console.error(..., e); }
Catch(l, fn, e) ==
    LET n == Len(l.caught) + 1
        entry == [call |-> n, fn |-> fn, e |-> e]
        seen == [l EXCEPT !.caught = Append(l.caught, [fn |-> fn, e |-> e,
                                                       handler |-> l.errorHandler])]
    IN  IF TestsHandler(fn) /\ l.errorHandler # "null"
        THEN [seen EXCEPT !.handled = Append(l.handled, entry @@ [by |-> l.errorHandler])]
        ELSE [seen EXCEPT !.logged = Append(l.logged, entry)]

\* setErrorHandler(handler)
SetErrorHandler ==
    /\ \E handler \in ErrorHandlers :
          /\ handler # lz.errorHandler
          /\ lz' = [lz EXCEPT !.errorHandler = handler]
    /\ UNCHANGED <<ev, rs, tpl, dom>>

\* A call of one of the functions in which the try block throws e.
FailingCall ==
    /\ Len(lz.caught) < MaxFailures
    /\ \E fn \in CatchBlocks, e \in Exceptions : lz' = Catch(lz, fn, e)
    /\ UNCHANGED <<ev, rs, tpl, dom>>

\* C27: for every exception a catch block received while a handler was set,
\* the handler was called exactly once, with that exception, and nothing was
\* logged.
C27_HandlerCalledOnce ==
    \A n \in DOMAIN lz.caught :
       lz.caught[n].handler # "null" =>
          /\ Cardinality({k \in DOMAIN lz.handled :
                             /\ lz.handled[k].call = n
                             /\ lz.handled[k].e = lz.caught[n].e
                             /\ lz.handled[k].by = lz.caught[n].handler}) = 1
          /\ \A k \in DOMAIN lz.logged : lz.logged[k].call # n

(***************************************************************************)
(* Updates between elements whose child lists hold null, undefined and the  *)
(* empty string next to texts and elements.                                 *)
(***************************************************************************)
SparseChildren ==
    {StringNode(<<"a">>), StringNode(<<>>), NullNode, UndefinedNode,
     Leaf("p", "k1", <<>>)}

SparseChildLists ==
    {<<>>} \cup {<<x>> : x \in SparseChildren}
           \cup {<<x, y>> : x \in SparseChildren, y \in SparseChildren}

SparseRoots == {H(0, "div", NoProps, kids) : kids \in SparseChildLists}

SparseMount == Mount(SparseRoots)

SparseUpdate == UpdateTo(SparseRoots)

\* The iterations of the loop that handle the new child at i, the old child at j.
VisitsOfNew(d, i) == {v \in DOMAIN d.visits : d.visits[v].new = i}

VisitsOfOld(d, j) == {v \in DOMAIN d.visits : d.visits[v].old = j}

\* C30: an update of an element by an element ends without an exception, its
\* loop having handled every new child once and every old child once.
C30_EveryChildVisitedOnce ==
    [][(/\ dom.phase = "mounted"
        /\ dom'.phase = "mounted"
        /\ dom'.nupdates = dom.nupdates + 1)
       => /\ \A n \in DOMAIN dom'.log : dom'.log[n] # "error"
          /\ \A i \in DOMAIN dom'.old.children :
                Cardinality(VisitsOfNew(dom', i - 1)) = 1
          /\ \A j \in DOMAIN dom.old.children :
                Cardinality(VisitsOfOld(dom', j - 1)) = 1]_vars

(***************************************************************************)
(* Templates with event bindings, over a context whose methods hold inc.    *)
(* invoked keeps the calls of methods the last compileTemplate or render()  *)
(* made.                                                                    *)
(***************************************************************************)
EvtAttrs ==
    {<<Attr(n, KeyInc)>> : n \in EventNames}
    \cup {<<Attr("@click", KeyA)>>, <<Attr(":title", KeyA), Attr("@click", KeyInc)>>}

EvtChildren ==
    {<<>>, <<TextNode(<<"hi">>)>>, <<TextNode(<<"{{a}}">>)>>,
     <<ElementNode("p", <<>>, <<>>)>>,
     <<ElementNode("b", <<Attr("@click", KeyInc)>>, <<TextNode(<<"{{a}}">>)>>)>>,
     <<ElementNode("i", <<Attr("z-once", <<>>)>>,
                   <<ElementNode("b", <<Attr("z-on:click", KeyInc)>>,
                                 <<TextNode(<<"{{a}}">>)>>)>>)>>}

EvtTemplates ==
    {ElementNode("button", at, ch) : at \in EvtAttrs \cup {<<>>}, ch \in EvtChildren}

\* compileTemplate(templateString, { state, methods: { inc } })
EvtCompile ==
    /\ tpl.phase = "none"
    /\ \E first \in EvtTemplates, state \in TplStates :
          tpl' = CompileTemplate(first, state)
    /\ UNCHANGED <<ev, rs, dom, lz>>

\* Every VNode of the tree that has the prop @click has a function under it.
RECURSIVE ListenersCallable(_)
ListenersCallable(val) ==
    IF val.type = "vnode"
    THEN /\ "@click" \in DOMAIN val.props => val.props["@click"].t = "function"
         /\ \A i \in DOMAIN val.children : ListenersCallable(val.children[i])
    ELSE TRUE

\* C31: neither compileTemplate nor a render() calls a method bound with an
\* event binding, and every VNode a render() returns has a function under
\* its prop @click.
C31_MethodsOnlyOnEvent ==
    tpl.phase = "ready" =>
       /\ tpl.invoked = <<>>
       /\ (tpl.nrenders > 0 /\ ~tpl.last.threw) => ListenersCallable(tpl.last.val)

(***************************************************************************)
(* Writes to nested objects and the unsubscribe functions of watch.         *)
(***************************************************************************)
NestedPaths == {<<"o">>, <<"b">>}

NestedKeys == {"a", "x"}

\* state.get().o.x = value: the property write goes to the set trap of the
\* wrapper the read returned (lines 242-250).
RsNestedWrite ==
    /\ \E path \in NestedPaths, key \in NestedKeys, value \in {Prim("0"), Prim("1")} :
         LET r == StateGetPath(Fresh(rs, "nested"), path)
         IN  /\ r.val.t = "ref"
             /\ r.s.ents[r.val.id].kind = "proxy"
             /\ LET s == SetE(r.s, r.val.id, key, value)
                IN  Fits(s) /\ rs' = s
    /\ UNCHANGED <<ev, tpl, dom, lz>>

\* watchers.delete(key), line 282
WatchDelete(watchers, key) == SelectSeq(watchers, LAMBDA w : w.key # key)

\* A call of the function watch(key, cb) returned, for the callback under
\* the key now or for one that was replaced.
RsUnwatch ==
    /\ \E key \in WatchKeys, cb \in Callbacks :
         /\ rs.lastWatch[key] = cb \/ <<key, cb>> \in rs.replaced
         /\ rs' = [Fresh(rs, "unwatch") EXCEPT
                     !.watchers = WatchDelete(@, key),
                     !.unsub = [key |-> key, cb |-> cb],
                     !.replaced = @ \ {<<key, cb>>},
                     !.lastWatch[key] = IF @ = cb THEN NoCallback ELSE @]
    /\ UNCHANGED <<ev, tpl, dom, lz>>

\* The notifications the property write itself made (the writes a listener
\* makes with set are calls of their own).
DirectEvents(e) == {i \in DOMAIN rs.log : rs.log[i].e = e /\ rs.log[i].c = 0}

\* C33: a property write on a nested object invokes no watcher registered
\* under a key.
C33_NestedWriteSkipsKeyWatchers ==
    rs.op = "nested" =>
       \A i \in DirectEvents("watcher") : rs.log[i].key = "*"

\* C34: after a call of the unsubscribe function of a callback that was
\* replaced, the callback registered last under the key is still registered.
C34_UnsubscribeRemovesOwnCallback ==
    (/\ rs.op = "unwatch"
     /\ rs.lastWatch[rs.unsub.key] \notin {NoCallback, rs.unsub.cb})
    => \E i \in DOMAIN rs.watchers :
          rs.watchers[i] = [key |-> rs.unsub.key, cb |-> rs.lastWatch[rs.unsub.key]]

\* C35: a property write on a nested object invokes each registered onChange
\* listener exactly once.
C35_NestedWriteNotifiesOnce ==
    rs.op = "nested" =>
       \A l \in Registered :
          Cardinality({i \in DirectEvents("listener") : rs.log[i].who = l}) = 1

(***************************************************************************)
(* createApp.  The template is a render function that returns a div with   *)
(* the state's n as its title.  The hooks named in on                       *)
(* have the body (s) => { if (s.n === "1") s.n = "2" }, the other hooks     *)
(* write nothing; s is state.get(), and the assignment enters the set trap  *)
(* (lines 242-250), which runs the listener mount registered, when it has   *)
(* registered one, before the hook returns.  mount is a method of the app   *)
(* object createApp returns, whose properties are template, state, props,   *)
(* methods, computed, on, dom and mount: this.render is a function only     *)
(* when the receiver of the call is an object that has LiteZ's render,      *)
(* update and applyDirectives too                                           *)
(* (mount.call(Object.assign(Object.create(LiteZ), app), selector)).  The   *)
(* document keeps the state in n, this.dom in old, and in wrote the hooks   *)
(* that wrote during the last outermost write.                              *)
(***************************************************************************)
MaxWrites == 2

AppValues == {"0", "1", "3"}

AppHooks == {"beforeUpdate", "updated"}

Receivers == {"app", "LiteZ"}

\* this.template(), the function given as template (line 1564): { tag:
\* "div", props: { title: state.get().n }, children: [], flags: PROPS }.
Template(n) == [H(0, "div", "title" :> Str(n), <<>>) EXCEPT !.flags = {FlagPROPS}]

\* The listener (lines 1588-1593) run from the write of a hook: n is "2",
\* and no hook writes during the run.
InnerListener(doc) ==
    CHOOSE r \in {Hook([Update(Hook(d, "beforeUpdate"), Container, Template(d.n),
                               d.old, 0)
                           EXCEPT !.old = Template(d.n)],
                       "updated") : d \in {doc}} : TRUE

\* on.<name>?.(state.get(), props.get()) of the instance: the hook, and the
\* run of the listener its write starts.
HookBody(doc, name) ==
    CHOOSE r \in
        {IF name \in d.on /\ d.n = "1"
         THEN (IF d.listening
               THEN InnerListener([d EXCEPT !.n = "2", !.wrote = Append(@, name)])
               ELSE [d EXCEPT !.n = "2", !.wrote = Append(@, name)])
         ELSE d : d \in {doc}} : TRUE

WritingHook(d, name) == HookBody(Hook(d, name), name)

\* The end of the try block and the catch (lines 1031-1035).
UpdateEnd(result) ==
    CHOOSE r \in
        {IF looped.threw THEN [looped.d EXCEPT !.log = Append(@, "error")]
         ELSE WritingHook(looped.d, "updated") : looped \in {result}} : TRUE

\* update(container, newNode, oldNode, 0) of the listener: lines 923-1036
\* with the hooks of lines 960 and 1031 those of the instance; child is
\* read (line 926) before the first of them runs.
UpdateWithHooks(doc, newNode, oldNode) ==
    CHOOSE r \in
        {IF child = 0 \/ oldNode.type # "vnode" \/ newNode.tag # oldNode.tag
         THEN Update(d, Container, newNode, oldNode, 0)
         ELSE CHOOSE q \in
                 {IF patched.threw
                  THEN [patched.d EXCEPT !.log = Append(@, "error")]
                  ELSE UpdateEnd(ChildrenLoop(patched.d, Container, newNode.children,
                                              oldNode.children,
                                              KeyMapOf(oldNode.children), 0, 0)) :
                     patched \in {ApplyOps(WritingHook(d, "beforeUpdate"), child,
                                           PatchOps(newNode, oldNode))}} : TRUE :
            d \in {doc}, child \in {ChildAt(doc, Container, 0)}} : TRUE

\* The listener mount registers (lines 1588-1593), run from a write of the
\* application.
Listener(doc) ==
    CHOOSE r \in
        {WritingHook([UpdateWithHooks(before, Template(before.n), before.old)
                         EXCEPT !.old = Template(before.n)],
                     "updated") : before \in {WritingHook(doc, "beforeUpdate")}} : TRUE

\* app.mount(selector) (lines 1574-1595): with the app object as receiver
\* this.render(node, container) throws a TypeError to the caller, before
\* the listener is registered.
AppMount ==
    /\ dom.phase = "none"
    /\ \E n \in AppValues, on \in SUBSET AppHooks, receiver \in Receivers :
          LET before == Hook(EmptyDocument(TRUE)
                                @@ [n |-> n, on |-> on, listening |-> FALSE,
                                    wrote |-> <<>>, nwrites |-> 0],
                             "beforeMount")
              r == Render(before, Template(n), Container)
          IN  dom' = IF receiver = "app"
                     THEN [before EXCEPT !.phase = "failed"]
                     ELSE [Hook(r.d, "mount") EXCEPT !.old = RenderResult(r.ret),
                                                     !.listening = TRUE]
    /\ UNCHANGED <<ev, rs, tpl, lz>>

\* state.get().n = value, or state.set("n", value), by the application:
\* the outermost write.
AppWrite ==
    /\ dom.phase \in {"mounted", "failed"}
    /\ dom.nwrites < MaxWrites
    /\ \E value \in AppValues :
          \E written \in {[dom EXCEPT !.log = <<>>, !.trace = <<>>, !.writes = <<>>,
                                      !.visits = <<>>, !.wrote = <<>>, !.n = value,
                                      !.nwrites = dom.nwrites + 1]} :
              dom' = IF written.listening THEN Listener(written) ELSE written
    /\ UNCHANGED <<ev, rs, tpl, lz>>

MaxChain == 2

BatchNodes ==
    {[H(0, "div", p.props, kids) EXCEPT !.flags = p.flags] :
        p \in DomProps, kids \in {<<>>, <<StringNode(<<"a">>)>>}}

Chains == UNION {[1..k -> BatchNodes] : k \in 1..MaxChain}

\* The container as scheduleUpdate sees it: no _key, nodeName "DIV".
BatchParent == [id |-> Container, nodeName |-> "DIV", key |-> ""]

OldOf(chain, old, k) == IF k = 1 THEN old ELSE chain[k - 1]

\* update(container, n1, old), update(container, n2, n1), ...: from the
\* k-th on.
RECURSIVE UpdateAll(_, _, _, _)
UpdateAll(d, chain, old, k) ==
    IF k > Len(chain) THEN d
    ELSE UpdateAll(Update(d, Container, chain[k], OldOf(chain, old, k), 0),
                   chain, old, k + 1)

\* scheduleUpdate(container, n1, old), scheduleUpdate(container, n2, n1),
\* ...: the queue after the calls from the k-th on (lines 907-908).
RECURSIVE ScheduleAll(_, _, _, _)
ScheduleAll(queue, chain, old, k) ==
    IF k > Len(chain) THEN queue
    ELSE ScheduleAll(MapSet(queue, QueueKey(BatchParent, 0),
                            [parent |-> Container, newNode |-> chain[k],
                             oldNode |-> OldOf(chain, old, k), index |-> 0]),
                     chain, old, k + 1)

\* The frame callback (lines 912-916): updateQueue.forEach from the entry at
\* pos on.
RECURSIVE Flush(_, _, _)
Flush(d, queue, pos) ==
    IF pos > Len(queue) THEN d
    ELSE Flush(Update(d, queue[pos].value.parent, queue[pos].value.newNode,
                      queue[pos].value.oldNode, queue[pos].value.index),
               queue, pos + 1)

\* render(old, container) into the empty container.
BatchMount ==
    /\ dom.phase = "none"
    /\ \E old \in BatchNodes :
          dom' = [Render(EmptyDocument(FALSE), old, Container).d EXCEPT !.old = old]
                    @@ [immediate |-> Rendered(old), chain |-> <<>>]
    /\ UNCHANGED <<ev, rs, tpl, lz>>

\* The updates of a chain scheduled, and the frame callback called.
BatchUpdate ==
    /\ dom.phase = "mounted"
    /\ dom.nupdates < MaxUpdates
    /\ \E chain \in Chains :
          LET base == [dom EXCEPT !.log = <<>>, !.trace = <<>>, !.writes = <<>>,
                                  !.visits = <<>>]
              direct == UpdateAll(base, chain, dom.old, 1)
          IN  dom' = [Flush(base, ScheduleAll(<<>>, chain, dom.old, 1), 1)
                         EXCEPT !.old = chain[Len(chain)],
                                !.nupdates = dom.nupdates + 1,
                                !.chain = chain,
                                !.immediate = Subtree(direct, ChildAt(direct, Container, 0))]
    /\ UNCHANGED <<ev, rs, tpl, lz>>

\* C38: after the updates of a chain were scheduled and flushed once, the
\* child of the container is equal to the one the same updates leave when
\* made at once, one after the other.
C38_FlushEqualsImmediate ==
    (dom.phase = "mounted" /\ dom.nupdates > 0)
       => Subtree(dom, ChildAt(dom, Container, 0)) = dom.immediate

(***************************************************************************)
(* store({ state, mutations }) without modules.  The state is an object of *)
(* string properties, a function from its keys; history and historyIndex   *)
(* are those of the closure (historyIndex counts from 0, -1 for none).     *)
(* ops keeps the calls made and what they returned, prior and post the     *)
(* state before and after the last commit that returned true.              *)
(***************************************************************************)
MaxHistory == 50

MaxStoreOps == 5

StoreStates == {("a" :> "0"), ("a" :> "0") @@ ("b" :> "0")}

\* The mutations: (s) => { s.a = s.a === "0" ? "1" : "0" },
\* (s) => { s.b = "1" } and (s) => { delete s.b }.
MutationTypes == {"toggleA", "setB", "deleteB"}

Mutation(type, state) ==
    IF type = "toggleA" THEN [state EXCEPT !["a"] = IF @ = "0" THEN "1" ELSE "0"]
    ELSE IF type = "setB" THEN ("b" :> "1") @@ state
    ELSE [k \in DOMAIN state \ {"b"} |-> state[k]]

\* clone (line 1163): structuredClone where the environment has it, which
\* throws a DataCloneError for a Proxy; JSON.parse(JSON.stringify(obj))
\* otherwise, a plain object with the same string properties.
CloneFns == {"structuredClone", "JSON"}

\* data.set(obj) (line 270): Object.assign(proxy, deepProxy(obj)) assigns
\* each property of obj and leaves the other properties of the state.
StateSetMerge(state, obj) ==
    [k \in DOMAIN state \cup DOMAIN obj |-> IF k \in DOMAIN obj THEN obj[k] ELSE state[k]]

\* history.splice(start): the entries from start (counted from 0) on removed.
Splice(history, start) == SubSeq(history, 1, start)

Min(a, b) == IF a < b THEN a ELSE b

Max(a, b) == IF a > b THEN a ELSE b

Called(st, op, ret) == [st EXCEPT !.ops = Append(@, [op |-> op, ret |-> ret])]

StoreCreate ==
    /\ lz.store.phase = "none"
    /\ \E state \in StoreStates, clone \in CloneFns :
          lz' = [lz EXCEPT !.store =
                    [phase |-> "ready", clone |-> clone, state |-> state,
                     history |-> <<>>, historyIndex |-> -1, ops |-> <<>>,
                     prior |-> state, post |-> state]]
    /\ UNCHANGED <<ev, rs, tpl, dom>>

\* commit(type, payload), type that of a mutation (lines 1180-1198).
StoreCommit ==
    /\ lz.store.phase = "ready"
    /\ Len(lz.store.ops) < MaxStoreOps
    /\ \E type \in MutationTypes :
          LET st == lz.store
              oldState == st.state
              newState == Mutation(type, st.state)
              pushed == Append(Splice(st.history, Min(st.historyIndex + 1, Len(st.history))),
                               [type |-> type, before |-> oldState, after |-> newState])
              over == Len(pushed) > MaxHistory
          IN  lz' = [lz EXCEPT !.store =
                        IF st.clone = "structuredClone"
                        THEN Called(st, "commit", "DataCloneError")
                        ELSE [Called(st, "commit", "true") EXCEPT
                                 !.state = newState,
                                 !.history = IF over THEN Tail(pushed) ELSE pushed,
                                 !.historyIndex = IF over THEN Max(0, st.historyIndex + 1 - 1)
                                                  ELSE st.historyIndex + 1,
                                 !.prior = oldState,
                                 !.post = newState]]
    /\ UNCHANGED <<ev, rs, tpl, dom>>

\* undo() (lines 1226-1234).
StoreUndo ==
    /\ lz.store.phase = "ready"
    /\ Len(lz.store.ops) < MaxStoreOps
    /\ LET st == lz.store
       IN  lz' = [lz EXCEPT !.store =
                     IF st.historyIndex >= 0
                     THEN [Called(st, "undo", "true") EXCEPT
                              !.state = StateSetMerge(st.state,
                                            st.history[st.historyIndex + 1].before),
                              !.historyIndex = st.historyIndex - 1]
                     ELSE Called(st, "undo", "false")]
    /\ UNCHANGED <<ev, rs, tpl, dom>>

\* redo() (lines 1235-1243).
StoreRedo ==
    /\ lz.store.phase = "ready"
    /\ Len(lz.store.ops) < MaxStoreOps
    /\ LET st == lz.store
       IN  lz' = [lz EXCEPT !.store =
                     IF st.historyIndex < Len(st.history) - 1
                     THEN [Called(st, "redo", "true") EXCEPT
                              !.state = StateSetMerge(st.state,
                                            st.history[st.historyIndex + 2].after),
                              !.historyIndex = st.historyIndex + 1]
                     ELSE Called(st, "redo", "false")]
    /\ UNCHANGED <<ev, rs, tpl, dom>>

\* The last calls made are those named, in this order, and each returned
\* true.
LastCalls(names) ==
    LET ops == lz.store.ops
        n == Len(names)
    IN  /\ Len(ops) >= n
        /\ \A i \in 1..n :
              /\ ops[Len(ops) - n + i].op = names[i]
              /\ ops[Len(ops) - n + i].ret = "true"

\* C39: a commit followed by undo() leaves the state equal to the state
\* before the commit; a redo() after them leaves the state equal to the
\* state after the commit; the history holds at most 50 entries and
\* -1 <= historyIndex <= history.length - 1.
C39_UndoRedoRestore ==
    lz.store.phase = "ready" =>
       /\ LastCalls(<<"commit", "undo">>) => lz.store.state = lz.store.prior
       /\ LastCalls(<<"commit", "undo", "redo">>) => lz.store.state = lz.store.post
       /\ Len(lz.store.history) <= MaxHistory
       /\ -1 <= lz.store.historyIndex
       /\ lz.store.historyIndex <= Len(lz.store.history) - 1

\* Nothing called yet.
Init == ev = EvIdle /\ rs = RsNew /\ tpl = TplIdle /\ dom = DomIdle /\ lz = LzNew

NextEval == EvalCall \/ EvalReturn

SpecEval == Init /\ [][NextEval]_vars

NextState == RsSet \/ RsSetObject \/ RsOnChange \/ RsWatch

SpecState == Init /\ [][NextState]_vars

NextWrap == RsSet \/ RsSetBack \/ RsRead

SpecWrap == Init /\ [][NextWrap]_vars

NextTpl == TplCompile \/ TplRender \/ TplWrite

SpecTpl == Init /\ [][NextTpl]_vars

NextDir == DirCompile \/ TplRender \/ DirWrite

SpecDir == Init /\ [][NextDir]_vars

NextDom == DomMount \/ DomUpdate

NextIf == IfMount \/ IfToggle

SpecIf == Init /\ [][NextIf]_vars

NextTeardown == TdMount \/ TdDirective \/ TdUpdate

SpecTeardown == Init /\ [][NextTeardown]_vars

SpecDom == Init /\ [][NextDom]_vars

NextSchedule == ScheduleUpdate \/ FlushStart \/ FlushStep \/ FlushEnd

SpecSchedule == Init /\ [][NextSchedule]_vars

SpecRoute == Init /\ [][ShowRoute]_vars

NextErr == SetErrorHandler \/ FailingCall

SpecErr == Init /\ [][NextErr]_vars

NextSparse == SparseMount \/ SparseUpdate

SpecSparse == Init /\ [][NextSparse]_vars

NextEvt == EvtCompile \/ TplRender \/ TplWrite

SpecEvt == Init /\ [][NextEvt]_vars

NextWatch == RsWatch \/ RsUnwatch \/ RsNestedWrite

SpecWatch == Init /\ [][NextWatch]_vars

NextNested == RsSetBack \/ RsOnChange \/ RsNestedWrite

SpecNested == Init /\ [][NextNested]_vars


NextApp == AppMount \/ AppWrite

SpecApp == Init /\ [][NextApp]_vars


NextBatch == BatchMount \/ BatchUpdate

SpecBatch == Init /\ [][NextBatch]_vars


NextStore == StoreCreate \/ StoreCommit \/ StoreUndo \/ StoreRedo

SpecStore == Init /\ [][NextStore]_vars

====
